---- MODULE Spec2Model ----
(***************************************************************************)
(* Disasters API: the PostgreSQL service layer (services/disaster.service) *)
(* with the REST router (routes/disasters), the Joi schemas                *)
(* (validation/disaster) and the GraphQL resolvers (graphql/resolvers).    *)
(*                                                                         *)
(* The table `disasters` is the function `rows` from id to row.  Every    *)
(* call of the service, every REST request and every GraphQL query is one  *)
(* action; it leaves its arguments and its outcome in `last` and the table *)
(* it started from in `prev`.  bulkUpdateDisasters awaits between its      *)
(* statements and takes one step per statement.                            *)
(***************************************************************************)
EXTENDS Integers, Sequences, FiniteSets, TLC

VARIABLES
  rows,      \* the disasters table: id -> row
  nextId,    \* next value of the id sequence (id SERIAL PRIMARY KEY)
  now,       \* the store's clock, read by NOW()
  client,    \* the connection bulkUpdateDisasters checked out of the pool
  bulk,      \* position of the bulkUpdateDisasters call in progress
  deleted,   \* ids for which deleteDisaster has returned true
  prev,      \* the table as it was when the last operation was called
  last       \* the last operation: its name, arguments and outcome

vars == <<rows, nextId, now, client, bulk, deleted, prev, last>>

---------------------------------------------------------------------------
(* Bounds of the model *)

MaxId == 2        \* ids the sequence hands out in the small specification
MaxClock == 1     \* ticks of the store's clock
MaxBatch == 2     \* longest batch of the small specification

---------------------------------------------------------------------------
(* Values *)

Undefined == "undefined"          \* a JavaScript undefined in a string field
NoLocation == <<>>                \* an undefined location
SqlNull == "null"                 \* SQL NULL in a text column
Null == <<>>                      \* a null result: Disaster | null is <<>> or <<d>>

Statuses == {"active", "contained", "resolved"}
MsPerDay == 86400000

\* /^\d+$/ on the date strings of the model
IsDigits(s) == s \in {"0", "86400000", "129600000"}

\* Number(s) for the digit strings of the model
NumberOf(s) ==
  CASE s = "0" -> 0
    [] s = "86400000" -> 86400000
    [] s = "129600000" -> 129600000

\* the calendar day (days since 1970-01-01) a YYYY-MM-DD string names
DayOfIso(s) ==
  CASE s = "1970-01-01" -> 0
    [] s = "1970-01-02" -> 1
    [] s = "1970-01-03" -> 2

\* new Date(ms).toISOString().slice(0, 10)
IsoOfDay(d) ==
  CASE d = 0 -> "1970-01-01"
    [] d = 1 -> "1970-01-02"
    [] d = 2 -> "1970-01-03"

IsoOfMs(ms) == IsoOfDay(ms \div MsPerDay)

\* the date normalisation every write path of the service repeats
NormalizeDate(dateValue) ==
  IF IsDigits(dateValue) THEN IsoOfMs(NumberOf(dateValue)) ELSE dateValue

InputKeys == {"type", "location", "date", "description", "status"}

\* DisasterInputDTO: the five fields, undefined where the body has none
Input(ty, loc, dt, desc, st) ==
  [type |-> ty, location |-> loc, date |-> dt, description |-> desc, status |-> st]

NoFields == Input(Undefined, NoLocation, Undefined, Undefined, Undefined)

IsUndefined(key, value) ==
  IF key = "location" THEN value = NoLocation ELSE value = Undefined

\* the entries of data whose value !== undefined
Supplied(data) == {k \in InputKeys : ~IsUndefined(k, data[k])}

---------------------------------------------------------------------------
(* The table *)

Ids == DOMAIN rows

\* ST_GeomFromGeoJSON($n)::geography: the cast folds a latitude beyond a
\* pole back into -90 .. 90; the longitudes of the model are within range
Geography(loc) ==
  IF Len(loc) # 2 THEN loc
  ELSE <<loc[1], IF loc[2] > 90 THEN 180 - loc[2]
                 ELSE IF loc[2] < -90 THEN -180 - loc[2] ELSE loc[2]>>

\* INSERT ... VALUES (type, location, date, description, status || 'active')
NewRow(id, data, t) ==
  [id |-> id,
   type |-> data.type,
   location |-> Geography(data.location),
   date |-> DayOfIso(NormalizeDate(data.date)),
   description |-> IF data.description = Undefined THEN SqlNull ELSE data.description,
   status |-> IF data.status \in {Undefined, ""} THEN "active" ELSE data.status,
   created_at |-> t,
   updated_at |-> t]

\* mapRowToDisaster
mapRowToDisaster(row) ==
  [id |-> row.id,
   type |-> row.type,
   location |-> IF Len(row.location) = 2 THEN row.location ELSE <<0, 0>>,
   date |-> IsoOfDay(row.date),
   description |-> row.description,
   status |-> row.status,
   createdAt |-> row.created_at,
   updatedAt |-> row.updated_at]

\* the value one SET clause of updateDisaster writes
SetValue(key, value) ==
  IF key = "date" THEN DayOfIso(NormalizeDate(value))
  ELSE IF key = "location" THEN Geography(value)
  ELSE value

\* an UPDATE that also sets status, to its default when data has none
UpdatedRow_statusDefault(row, data, t) ==
  [k \in DOMAIN row |->
     IF k \in Supplied(data) THEN SetValue(k, data[k])
     ELSE IF k = "status" THEN "active"
     ELSE IF k = "updated_at" THEN t
     ELSE row[k]]

\* UPDATE disasters SET <supplied fields>, updated_at = NOW() WHERE id = $1
UpdatedRow(row, data, t) ==
  [k \in DOMAIN row |->
     IF k \in Supplied(data) THEN SetValue(k, data[k])
     ELSE IF k = "updated_at" THEN t
     ELSE row[k]]

\* the table after f is put at id
Put(tbl, id, row) == [i \in (DOMAIN tbl) \cup {id} |-> IF i = id THEN row ELSE tbl[i]]

\* the table without id
Remove(tbl, id) == [i \in (DOMAIN tbl) \ {id} |-> tbl[i]]

---------------------------------------------------------------------------
(* Inputs of the small specification *)

CreateInputs ==
  { Input("fire", <<1, 2>>, "1970-01-01", "d", Undefined),
    Input("flood", <<10, 20>>, "86400000", Undefined, "resolved") }

Partials ==
  { NoFields,
    Input(Undefined, NoLocation, Undefined, Undefined, "contained"),
    Input("flood", <<1, 2>>, "129600000", "e", Undefined) }

CallIds == 1 .. (MaxId + 1)

\* the batches bulkInsertDisasters is called with
InsertBatches == UNION {[1 .. n -> CreateInputs] : n \in 0 .. MaxBatch}

\* one element of a bulkUpdateDisasters batch: { id, ...data }
Update(id, data) == [id |-> id, data |-> data]

UpdateItems ==
  { Update(1, Input(Undefined, NoLocation, Undefined, Undefined, "contained")),
    Update(2, Input("flood", <<1, 2>>, "129600000", "e", Undefined)),
    Update(2, NoFields),
    Update(MaxId + 1, Input(Undefined, NoLocation, Undefined, Undefined, "contained")) }

UpdateBatches == UNION {[1 .. n -> UpdateItems] : n \in 0 .. MaxBatch}

\* req.headers.accept as its sequence of tokens: media types, parameters,
\* " " and ","; the empty sequence for no header
ProtobufType == "application/x-protobuf"
NoAccept == <<>>

\* accept.split(',')[0]
FirstEntry(accept) ==
  LET commas == {i \in 1 .. Len(accept) : accept[i] = ","}
  IN IF commas = {} THEN accept
     ELSE SubSeq(accept, 1, (CHOOSE i \in commas : \A j \in commas : i <= j) - 1)

\* s.trim()
Trim(s) ==
  LET inked == {i \in 1 .. Len(s) : s[i] # " "}
  IN IF inked = {} THEN <<>>
     ELSE SubSeq(s, CHOOSE i \in inked : \A j \in inked : i <= j,
                    CHOOSE i \in inked : \A j \in inked : i >= j)

\* a negotiation that looks for the media type in any entry of the header
wantsProtobuf_anywhere(accept) == \E i \in 1 .. Len(accept) : accept[i] = ProtobufType

\* wantsProtobuf(req)
wantsProtobuf(accept) ==
  /\ accept # NoAccept
  /\ Trim(FirstEntry(accept)) = <<ProtobufType>>

\* the format of a response that is sent in the negotiated format
FormatOf(accept) == IF wantsProtobuf(accept) THEN "protobuf" ELSE "json"

Idle == [pc |-> "idle", via |-> "none", updates |-> <<>>, i |-> 0, modifiedCount |-> 0,
         body |-> [isArray |-> FALSE, items |-> <<>>], accept |-> NoAccept]

\* a pooled connection: checked out or not, inside BEGIN or not, and the rows
\* written through it that its transaction has not committed yet
NoClient == [held |-> FALSE, inTxn |-> FALSE, pending |-> << >>]

---------------------------------------------------------------------------
(* The service (services/disaster.service, the pg Pool implementation) *)

Init ==
  /\ rows = << >>
  /\ nextId = 1
  /\ now = 0
  /\ client = NoClient
  /\ bulk = Idle
  /\ deleted = {}
  /\ prev = << >>
  /\ last = [op |-> "init"]

\* time passes in the store
Tick ==
  /\ bulk.pc = "idle"
  /\ now < MaxClock
  /\ now' = now + 1
  /\ prev' = rows
  /\ last' = [op |-> "tick"]
  /\ UNCHANGED <<rows, nextId, client, bulk, deleted>>

\* nextval that hands the same value out again
nextval_stuck(seq, n) == seq

\* the id sequence after n values were drawn from it
nextval(seq, n) == seq + n

\* createDisaster: one INSERT ... RETURNING
createDisaster(data) ==
  /\ rows' = Put(rows, nextId, NewRow(nextId, data, now))
  /\ nextId' = nextval(nextId, 1)

createResult(data) == mapRowToDisaster(NewRow(nextId, data, now))

\* getDisasterById: Disaster | null
getDisasterById(tbl, id) ==
  IF id \in DOMAIN tbl THEN <<mapRowToDisaster(tbl[id])>> ELSE Null

\* updateDisaster without its early return for an empty SET clause
UpdateTable_noEarlyReturn(tbl, id, data, t) ==
  IF id \notin DOMAIN tbl THEN tbl
  ELSE [i \in DOMAIN tbl |->
          IF i = id
            THEN [k \in DOMAIN tbl[i] |->
                    IF k \in Supplied(data) THEN SetValue(k, data[k])
                    ELSE IF k = "updated_at" THEN t
                    ELSE tbl[i][k]]
            ELSE tbl[i]]

\* updateDisaster(id, data) at clock t: the table it leaves
UpdateTable(tbl, id, data, t) ==
  IF Supplied(data) = {} \/ id \notin DOMAIN tbl THEN tbl
  ELSE Put(tbl, id, UpdatedRow(tbl[id], data, t))

\* updateDisaster(id, data) at clock t: the Disaster | null it returns
UpdateResult(tbl, id, data, t) ==
  IF Supplied(data) = {} THEN getDisasterById(tbl, id)
  ELSE IF id \in DOMAIN tbl THEN <<mapRowToDisaster(UpdatedRow(tbl[id], data, t))>>
  ELSE Null

\* a DELETE whose WHERE clause matches every row
deleteDisaster_all(id) ==
  /\ rows' = IF id \in Ids THEN << >> ELSE rows
  /\ deleted' = IF id \in Ids THEN deleted \cup {id} ELSE deleted

\* deleteDisaster: DELETE FROM disasters WHERE id = $1; rowCount > 0
deleteDisaster(id) ==
  /\ rows' = IF id \in Ids THEN Remove(rows, id) ELSE rows
  /\ deleted' = IF id \in Ids THEN deleted \cup {id} ELSE deleted

deleteResult(id) == id \in Ids

\* the table after one INSERT of the whole batch, ids drawn from first on
InsertAll(tbl, first, disasters, t) ==
  [i \in (DOMAIN tbl) \cup (first .. (first + Len(disasters) - 1)) |->
     IF i \in DOMAIN tbl THEN tbl[i] ELSE NewRow(i, disasters[i - first + 1], t)]

\* bulkInsertDisasters: [] for an empty batch without a statement, else one
\* INSERT for the whole batch; ok = FALSE is the store rejecting the
\* statement, which inserts nothing but may have drawn ids from the sequence
bulkInsertDisasters(disasters, ok) ==
  IF Len(disasters) = 0 THEN UNCHANGED <<rows, nextId>>
  ELSE IF ok
    THEN /\ rows' = InsertAll(rows, nextId, disasters, now)
         /\ nextId' = nextval(nextId, Len(disasters))
    ELSE /\ rows' = rows
         /\ nextId' \in {nextval(nextId, k) : k \in 0 .. Len(disasters)}

bulkInsertResult(disasters) ==
  [i \in 1 .. Len(disasters) |-> mapRowToDisaster(NewRow(nextId + i - 1, disasters[i], now))]

\* the table after the client's transaction ends
Commit(tbl, c) ==
  [i \in (DOMAIN tbl) \cup (DOMAIN c.pending) |->
     IF i \in DOMAIN c.pending THEN c.pending[i] ELSE tbl[i]]

Rollback(tbl, c) == tbl

\* bulkUpdateDisasters up to its loop: pool.connect() and BEGIN on that client
bulkUpdateBegin(via, body, accept, updates) ==
  /\ client' = [held |-> TRUE, inTxn |-> TRUE, pending |-> << >>]
  /\ bulk' = [pc |-> "loop", via |-> via, updates |-> updates, i |-> 1,
              modifiedCount |-> 0, body |-> body, accept |-> accept]

\* what the caller of bulkUpdateDisasters makes of its outcome: the service's
\* own caller gets the counts or the error, the REST route answers 200 in the
\* negotiated format (an empty DisasterList for protobuf) or 400 in JSON, the
\* GraphQL mutation answers true or an INTERNAL_ERROR
bulkUpdateOutcome(b, outcome) ==
  IF b.via = "rest"
    THEN [op |-> "PUT /bulk", body |-> b.body, accept |-> b.accept,
          status |-> IF outcome = "ok" THEN 200 ELSE 400,
          format |-> IF outcome = "ok" THEN FormatOf(b.accept) ELSE "json",
          error |-> IF outcome = "ok" THEN "" ELSE "Bulk update failed",
          result |-> [matchedCount |-> Len(b.updates), modifiedCount |-> b.modifiedCount]]
  ELSE IF b.via = "graphql"
    THEN [op |-> "Mutation.bulkUpdateDisasters", id |-> <<>>, body |-> b.body,
          code |-> IF outcome = "ok" THEN "" ELSE "INTERNAL_ERROR",
          message |-> IF outcome = "ok" THEN "" ELSE "Failed to bulk update disasters",
          data |-> <<>>, store |-> TRUE]
    ELSE [op |-> "bulkUpdate", updates |-> b.updates, outcome |-> outcome,
          result |-> [matchedCount |-> Len(b.updates), modifiedCount |-> b.modifiedCount]]

\* one turn of the loop: updateDisaster(id, data) runs its statement through
\* pool.query, not through the client; ok = FALSE is that statement failing,
\* which takes the catch branch: ROLLBACK on the client, release, rethrow
bulkUpdateItem(ok) ==
  /\ bulk.pc = "loop"
  /\ bulk.i <= Len(bulk.updates)
  /\ LET u == bulk.updates[bulk.i] IN
       IF ok
         THEN /\ rows' = UpdateTable(rows, u.id, u.data, now)
              /\ bulk' = [bulk EXCEPT !.i = @ + 1,
                                      !.modifiedCount =
                                         IF UpdateResult(rows, u.id, u.data, now) # Null
                                           THEN @ + 1 ELSE @]
              /\ UNCHANGED <<client, last>>
         ELSE /\ rows' = Rollback(rows, client)
              /\ client' = NoClient
              /\ bulk' = Idle
              /\ last' = bulkUpdateOutcome(bulk, "error")
  /\ UNCHANGED <<nextId, now, deleted, prev>>

\* after the loop: COMMIT, release, return the two counts
bulkUpdateCommit ==
  /\ bulk.pc = "loop"
  /\ bulk.i > Len(bulk.updates)
  /\ rows' = Commit(rows, client)
  /\ client' = NoClient
  /\ bulk' = Idle
  /\ last' = bulkUpdateOutcome(bulk, "ok")
  /\ UNCHANGED <<nextId, now, deleted, prev>>

---------------------------------------------------------------------------
(* Request bodies and the Joi schemas (validation/disaster) *)

\* a JSON value of a request body: a string, a number, or the object
\* { type: s, coordinates: c } a location is sent as
JStr(str) == [t |-> "string", s |-> str, n |-> 0, c |-> <<>>]
JNum(num) == [t |-> "number", s |-> "", n |-> num, c |-> <<>>]
\* null: what JSON.stringify writes for NaN, Infinity and -Infinity
JNull == [t |-> "null", s |-> "", n |-> 0, c |-> <<>>]
\* a location object: its type and its coordinates, JSON values themselves
JPointOf(ty, values) == [t |-> "object", s |-> ty, n |-> 0, c |-> values]
JPoint(ty, coords) == JPointOf(ty, [i \in 1 .. Len(coords) |-> JNum(coords[i])])

\* a JSON object is a function from its keys to JSON values
Has(item, key) == key \in DOMAIN item

\* Joi.string(): a string, and not the empty one
JoiString(v) == v.t = "string" /\ v.s # ""

\* Joi.string().allow('')
JoiStringAllowEmpty(v) == v.t = "string"

\* Joi.string().isoDate() on the date strings of the model
JoiIsoDate(v) == JoiString(v) /\ v.s \in {"1970-01-01", "1970-01-02", "1970-01-03"}

\* a status schema without its list of values
JoiStatus_anyString(v) == v.t = "string"

\* Joi.string().valid('active', 'contained', 'resolved')
JoiStatus(v) == v.t = "string" /\ v.s \in Statuses

MaxLongitude == 180
MaxLatitude == 90

\* Joi.number().min(lo).max(hi)
JoiNumber(x, lo, hi) == x.t = "number" /\ lo <= x.n /\ x.n <= hi

\* the location schema: type 'Point', and an array of length 2 each of whose
\* items matches one of the two schemas listed in items(...)
JoiLocation(v) ==
  /\ v.t = "object"
  /\ v.s = "Point"
  /\ Len(v.c) = 2
  /\ \A i \in 1 .. Len(v.c) :
       \/ JoiNumber(v.c[i], -MaxLongitude, MaxLongitude)
       \/ JoiNumber(v.c[i], -MaxLatitude, MaxLatitude)

\* disasterSchema; a Joi object rejects the keys its schema does not list
disasterSchema(item) ==
  /\ DOMAIN item \subseteq InputKeys
  /\ Has(item, "type") /\ JoiString(item["type"])
  /\ Has(item, "location") /\ JoiLocation(item["location"])
  /\ Has(item, "date") /\ JoiIsoDate(item["date"])
  /\ Has(item, "description") => JoiStringAllowEmpty(item["description"])
  /\ Has(item, "status") /\ JoiStatus(item["status"])

\* a request body: a JSON array of items, or something that is no array
Body(items) == [isArray |-> TRUE, items |-> items]
NotAnArray == [isArray |-> FALSE, items |-> <<>>]

\* a schema that is content with one valid item
bulkInsertSchema_anyItem(body) ==
  /\ body.isArray
  /\ Len(body.items) >= 1
  /\ \E i \in 1 .. Len(body.items) : disasterSchema(body.items[i])

\* bulkInsertSchema: Joi.array().items(disasterSchema).min(1).required()
bulkInsertSchema(body) ==
  /\ body.isArray
  /\ Len(body.items) >= 1
  /\ \A i \in 1 .. Len(body.items) : disasterSchema(body.items[i])

\* the object schema of one bulkUpdateSchema item: _id and any of the five
\* fields, at least two keys in all
bulkUpdateItemSchema(item) ==
  /\ DOMAIN item \subseteq {"_id"} \cup InputKeys
  /\ Has(item, "_id") /\ JoiString(item["_id"])
  /\ Has(item, "type") => JoiString(item["type"])
  /\ Has(item, "location") => JoiLocation(item["location"])
  /\ Has(item, "date") => JoiIsoDate(item["date"])
  /\ Has(item, "description") => JoiStringAllowEmpty(item["description"])
  /\ Has(item, "status") => JoiStatus(item["status"])
  /\ Cardinality(DOMAIN item) >= 2

\* bulkUpdateSchema: Joi.array().items(...).min(1).required()
bulkUpdateSchema(body) ==
  /\ body.isArray
  /\ Len(body.items) >= 1
  /\ \A i \in 1 .. Len(body.items) : bulkUpdateItemSchema(body.items[i])

\* new DisasterInputDTO(d): the five fields of d, undefined where d has none
DisasterInputDTO(item) ==
  Input(IF Has(item, "type") THEN item["type"].s ELSE Undefined,
        IF Has(item, "location")
          THEN [i \in 1 .. Len(item["location"].c) |-> item["location"].c[i].n]
          ELSE NoLocation,
        IF Has(item, "date") THEN item["date"].s ELSE Undefined,
        IF Has(item, "description") THEN item["description"].s ELSE Undefined,
        IF Has(item, "status") THEN item["status"].s ELSE Undefined)

\* the id check of PUT /bulk: !item.id || typeof item.id !== 'number' ||
\* !Number.isInteger(item.id) || item.id <= 0
InvalidBulkId(item) ==
  \/ ~Has(item, "id")
  \/ item["id"].t # "number"
  \/ item["id"].n <= 0

\* const { id, ...data } = update, on an item of the request body
UpdateOfItem(item) == Update(item["id"].n, DisasterInputDTO(item))

\* new DisasterResponseDTO(d): the fields of d, status || 'active'
DisasterResponseDTO(d) ==
  [d EXCEPT !.status = IF @ \in {Undefined, SqlNull, ""} THEN "active" ELSE @]

---------------------------------------------------------------------------
(* The REST router (routes/disasters) *)

\* a string field of a protobuf message: Disaster.create leaves a null or
\* undefined property unset, and an unset string field reads as ""
ProtoString(v) == IF v \in {Undefined, SqlNull} THEN "" ELSE v

\* toProtoDisaster(d): the fields of d, the location as a JSON string
toProtoDisaster(d) ==
  [d EXCEPT !.location = [json |-> @],
            !.description = ProtoString(@),
            !.status = ProtoString(@)]

\* the body of a response that carries records, in the negotiated format
Encoded(accept, disasters) ==
  IF wantsProtobuf(accept)
    THEN [p \in 1 .. Len(disasters) |-> toProtoDisaster(disasters[p])]
    ELSE [p \in 1 .. Len(disasters) |-> DisasterResponseDTO(disasters[p])]

\* errorResponse(res, {error, status})
errorResponse(op, body, status, error) ==
  [op |-> op, body |-> body, status |-> status, error |-> error, format |-> "json",
   data |-> <<>>, result |-> [matchedCount |-> 0, modifiedCount |-> 0]]

\* router.post('/bulk'): 400 unless the whole body passes bulkInsertSchema,
\* then bulkInsertDisasters; 201 with the created records in the negotiated
\* format, or 400 when the store rejects the insert
router_post_bulk(body, accept, ok) ==
  /\ bulk.pc = "idle"
  /\ prev' = rows
  /\ IF ~bulkInsertSchema(body)
       THEN /\ last' = [accept |-> accept] @@
                          errorResponse("POST /bulk", body, 400, "Invalid input")
            /\ UNCHANGED <<rows, nextId>>
       ELSE LET disasters == [i \in 1 .. Len(body.items) |-> DisasterInputDTO(body.items[i])]
            IN /\ bulkInsertDisasters(disasters, ok)
               /\ last' = [accept |-> accept] @@
                          (IF ok
                             THEN [errorResponse("POST /bulk", body, 201, "") EXCEPT
                                     !.format = FormatOf(accept),
                                     !.data = Encoded(accept, bulkInsertResult(disasters))]
                             ELSE errorResponse("POST /bulk", body, 400, "Bulk insert failed"))
  /\ UNCHANGED <<now, client, bulk, deleted>>

\* router.put('/bulk'): 400 for a body that is no non-empty array, that fails
\* bulkUpdateSchema or that has an item whose id is no positive integer;
\* otherwise bulkUpdateDisasters(req.body), answered when that call ends
router_put_bulk(body, accept) ==
  /\ bulk.pc = "idle"
  /\ prev' = rows
  /\ IF \/ ~body.isArray \/ Len(body.items) = 0
        \/ ~bulkUpdateSchema(body)
        \/ \E i \in 1 .. Len(body.items) : InvalidBulkId(body.items[i])
       THEN /\ last' = [accept |-> accept] @@
                          errorResponse("PUT /bulk", body, 400, "Invalid input")
            /\ UNCHANGED <<client, bulk>>
       ELSE /\ bulkUpdateBegin("rest", body, accept,
                               [i \in 1 .. Len(body.items) |-> UpdateOfItem(body.items[i])])
            /\ last' = [op |-> "PUT /bulk", body |-> body, status |-> 0]
  /\ UNCHANGED <<rows, nextId, now, deleted>>

\* request bodies of the small specification
PostItems ==
  { [type |-> JStr("fire"), location |-> JPoint("Point", <<1, 2>>),
     date |-> JStr("1970-01-01"), description |-> JStr("d"), status |-> JStr("active")],
    [type |-> JStr("flood"), location |-> JPoint("Point", <<10, 20>>),
     date |-> JStr("1970-01-02"), status |-> JStr("resolved")],
    [type |-> JStr(""), location |-> JPoint("Point", <<1, 2>>),
     date |-> JStr("1970-01-01"), status |-> JStr("active")] }

PostBodies == {NotAnArray} \cup {Body(b) : b \in UNION {[1 .. n -> PostItems] : n \in 0 .. MaxBatch}}

PutItems ==
  { [id |-> JNum(1), status |-> JStr("resolved")],
    [id |-> JNum(MaxId + 1), type |-> JStr("fire")],
    ("_id" :> JStr("abc")) @@ [type |-> JStr("fire")],
    [id |-> JStr("badid"), type |-> JStr("fire")] }

PutBodies == {NotAnArray} \cup {Body(b) : b \in UNION {[1 .. n -> PutItems] : n \in 0 .. MaxBatch}}

---------------------------------------------------------------------------
(* Listing and counting *)

\* a JavaScript number: an integer, NaN, +Infinity or -Infinity; or undefined
Num(v) == [k |-> "num", v |-> v]
NaN == [k |-> "nan", v |-> 0]
PosInf == [k |-> "inf", v |-> 1]
NegInf == [k |-> "inf", v |-> -1]
Undef == [k |-> "undefined", v |-> 0]

DefaultLimit == 20
MaxLimit == 100

\* Number.isFinite(x)
IsFinite(x) == x.k = "num"

\* x || d
OrElse(x, d) == IF x.k = "nan" \/ (x.k = "num" /\ x.v = 0) THEN d ELSE x

\* an argument or a destructured field with a default
Default(x, d) == IF x.k = "undefined" THEN d ELSE x

Sign(x) == IF x.v > 0 THEN 1 ELSE IF x.v < 0 THEN -1 ELSE 0

\* x - 1
Minus1(x) == IF x.k = "num" THEN Num(x.v - 1) ELSE x

\* x * y
Times(x, y) ==
  IF x.k = "nan" \/ y.k = "nan" THEN NaN
  ELSE IF x.k = "num" /\ y.k = "num" THEN Num(x.v * y.v)
  ELSE IF Sign(x) = 0 \/ Sign(y) = 0 THEN NaN
  ELSE IF Sign(x) = Sign(y) THEN PosInf ELSE NegInf

\* Math.min(x, n) for a finite n
MathMin(x, n) ==
  IF x.k = "nan" THEN NaN
  ELSE IF x.k = "inf" THEN (IF x.v > 0 THEN Num(n) ELSE x)
  ELSE IF x.v < n THEN x ELSE Num(n)

\* a filter: the four fields getAllDisasters reads, undefined where absent
Filter(ty, st, from, to) == [type |-> ty, status |-> st, dateFrom |-> from, dateTo |-> to]
NoFilter == Filter(Undefined, Undefined, Undefined, Undefined)

\* if (filter.x): a field that is present and not the empty string
Truthy(s) == s \notin {Undefined, ""}

\* a WHERE clause whose date bounds are exclusive
Matches_exclusive(row, filter) ==
  /\ Truthy(filter.type) => row.type = filter.type
  /\ Truthy(filter.status) => row.status = filter.status
  /\ Truthy(filter.dateFrom) => row.date > DayOfIso(NormalizeDate(filter.dateFrom))
  /\ Truthy(filter.dateTo) => row.date < DayOfIso(NormalizeDate(filter.dateTo))

\* the WHERE clause getAllDisasters builds
Matches(row, filter) ==
  /\ Truthy(filter.type) => row.type = filter.type
  /\ Truthy(filter.status) => row.status = filter.status
  /\ Truthy(filter.dateFrom) => row.date >= DayOfIso(NormalizeDate(filter.dateFrom))
  /\ Truthy(filter.dateTo) => row.date <= DayOfIso(NormalizeDate(filter.dateTo))

\* the ids of S in ascending order
Ascending(S) ==
  LET In(i) == i \in S
  IN SelectSeq([i \in 1 .. nextId |-> i], In)

Reverse(seq) == [p \in 1 .. Len(seq) |-> seq[Len(seq) + 1 - p]]

\* the ids of S created at t or before, latest first
RECURSIVE OrderedFrom(_, _, _, _)
OrderedFrom(tbl, S, tieAsc, t) ==
  IF t < 0 THEN <<>>
  ELSE LET group == Ascending({i \in S : tbl[i].created_at = t})
       IN (IF tieAsc THEN group ELSE Reverse(group)) \o OrderedFrom(tbl, S, tieAsc, t - 1)

\* ORDER BY created_at ASC
Ordered_oldestFirst(tbl, S, tieAsc) == Reverse(OrderedFrom(tbl, S, tieAsc, now))

\* ORDER BY created_at DESC; rows created at the same instant come in an
\* order the store chooses, here by ascending or by descending id
Ordered(tbl, S, tieAsc) == OrderedFrom(tbl, S, tieAsc, now)

\* OFFSET skip LIMIT limit
Page(seq, skip, limit) ==
  [p \in 1 .. (IF Len(seq) - skip < 0 THEN 0
               ELSE IF Len(seq) - skip < limit THEN Len(seq) - skip ELSE limit) |->
     seq[skip + p]]

\* getAllDisasters({skip, limit, filter}): the ids of the rows it returns
getAllDisasters(tbl, skipRaw, limitRaw, filter, tieAsc) ==
  LET skip == IF IsFinite(Default(skipRaw, Num(0))) /\ Default(skipRaw, Num(0)).v >= 0
                THEN Default(skipRaw, Num(0)).v ELSE 0
      limit == IF IsFinite(Default(limitRaw, Num(DefaultLimit)))
                  /\ Default(limitRaw, Num(DefaultLimit)).v > 0
                 THEN Default(limitRaw, Num(DefaultLimit)).v ELSE DefaultLimit
      matching == {i \in DOMAIN tbl : Matches(tbl[i], filter)}
      ids == Page(Ordered(tbl, matching, tieAsc), skip, limit)
  IN [p \in 1 .. Len(ids) |-> mapRowToDisaster(tbl[ids[p]])]

\* countDisasters(): SELECT COUNT(*) FROM disasters; it declares no parameter
countDisasters(tbl) == Cardinality(DOMAIN tbl)

\* if (type) filter.type = type; ... for the four filter fields of a request
RequestFilter(f) ==
  Filter(IF Truthy(f.type) THEN f.type ELSE Undefined,
         IF Truthy(f.status) THEN f.status ELSE Undefined,
         IF Truthy(f.dateFrom) THEN f.dateFrom ELSE Undefined,
         IF Truthy(f.dateTo) THEN f.dateTo ELSE Undefined)

CallGetAll(skip, limit, filter, tieAsc) ==
  /\ bulk.pc = "idle"
  /\ prev' = rows
  /\ last' = [op |-> "list", skip |-> skip, limit |-> limit, filter |-> filter,
              data |-> getAllDisasters(rows, skip, limit, filter, tieAsc)]
  /\ UNCHANGED <<rows, nextId, now, client, bulk, deleted>>

CallCount(filter) ==
  /\ bulk.pc = "idle"
  /\ prev' = rows
  /\ last' = [op |-> "count", filter |-> filter, result |-> countDisasters(rows)]
  /\ UNCHANGED <<rows, nextId, now, client, bulk, deleted>>

\* router.get('/'): page and limit are Number(<query string>), undefined when
\* the query has none
router_get(page, limit, query, accept, tieAsc) ==
  /\ bulk.pc = "idle"
  /\ prev' = rows
  /\ LET pageNum == OrElse(Default(page, Num(1)), Num(1))
         limitNum == MathMin(OrElse(Default(limit, Num(DefaultLimit)), Num(DefaultLimit)),
                             MaxLimit)
         disasters == getAllDisasters(rows, Times(Minus1(pageNum), limitNum), limitNum,
                                      RequestFilter(query), tieAsc)
     IN last' = [op |-> "GET /", page |-> page, limit |-> limit, filter |-> query,
                 accept |-> accept, status |-> 200, format |-> FormatOf(accept),
                 data |-> Encoded(accept, disasters)]
  /\ UNCHANGED <<rows, nextId, now, client, bulk, deleted>>

\* Math.ceil(total / limit) for a count total and a number limit
CeilOfQuotient(total, limit) ==
  IF limit.k = "nan" THEN NaN
  ELSE IF limit.k = "inf" THEN Num(0)
  ELSE IF limit.v > 0 THEN Num((total + limit.v - 1) \div limit.v)
  ELSE IF limit.v < 0 THEN Num(0 - (total \div (0 - limit.v)))
  ELSE IF total = 0 THEN NaN
  ELSE PosInf

\* Query.disasters(page, limit, type, dateFrom, dateTo, status): page and
\* limit are GraphQL Int arguments or absent
Query_disasters(pageArg, limitArg, args, tieAsc) ==
  /\ bulk.pc = "idle"
  /\ prev' = rows
  /\ LET page == Default(pageArg, Num(1))
         limit == Default(limitArg, Num(DefaultLimit))
         disasters == getAllDisasters(rows, Times(Minus1(page), limit), limit,
                                      RequestFilter(args), tieAsc)
         total == countDisasters(rows)
     IN last' = [op |-> "Query.disasters", page |-> page, limit |-> limit, filter |-> args,
                 data |-> [p \in 1 .. Len(disasters) |-> DisasterResponseDTO(disasters[p])],
                 total |-> total, totalPages |-> CeilOfQuotient(total, limit)]
  /\ UNCHANGED <<rows, nextId, now, client, bulk, deleted>>

\* filters and page arguments of the small specification
Filters ==
  { NoFilter,
    Filter("fire", Undefined, Undefined, Undefined),
    Filter(Undefined, "resolved", Undefined, Undefined),
    Filter("flood", Undefined, "86400000", "1970-01-03"),
    Filter(Undefined, Undefined, Undefined, "1970-01-01") }

SmallSkips == {Undef, Num(0), Num(1)}
SmallPages == {Undef, Num(1), Num(2)}
SmallLimits == {Undef, Num(1)}

---------------------------------------------------------------------------
(* Calls of the service from outside the router *)

CallCreate(data) ==
  /\ bulk.pc = "idle"
  /\ nextId <= MaxId
  /\ createDisaster(data)
  /\ prev' = rows
  /\ last' = [op |-> "create", data |-> data, result |-> <<createResult(data)>>]
  /\ UNCHANGED <<now, client, bulk, deleted>>

CallGetById(id) ==
  /\ bulk.pc = "idle"
  /\ prev' = rows
  /\ last' = [op |-> "getById", id |-> id, result |-> getDisasterById(rows, id)]
  /\ UNCHANGED <<rows, nextId, now, client, bulk, deleted>>

CallUpdate(id, data) ==
  /\ bulk.pc = "idle"
  /\ rows' = UpdateTable(rows, id, data, now)
  /\ prev' = rows
  /\ last' = [op |-> "update", id |-> id, data |-> data,
              result |-> UpdateResult(rows, id, data, now)]
  /\ UNCHANGED <<nextId, now, client, bulk, deleted>>

CallDelete(id) ==
  /\ bulk.pc = "idle"
  /\ deleteDisaster(id)
  /\ prev' = rows
  /\ last' = [op |-> "delete", id |-> id, result |-> deleteResult(id)]
  /\ UNCHANGED <<nextId, now, client, bulk>>

CallBulkInsert(disasters, ok) ==
  /\ bulk.pc = "idle"
  /\ nextId + Len(disasters) - 1 <= MaxId
  /\ bulkInsertDisasters(disasters, ok)
  /\ prev' = rows
  /\ last' = [op |-> "bulkInsert", disasters |-> disasters,
              outcome |-> IF ok \/ Len(disasters) = 0 THEN "ok" ELSE "error",
              result |-> IF ok THEN bulkInsertResult(disasters) ELSE <<>>]
  /\ UNCHANGED <<now, client, bulk, deleted>>

CallBulkUpdate(updates) ==
  /\ bulk.pc = "idle"
  /\ bulkUpdateBegin("service", Idle.body, NoAccept, updates)
  /\ prev' = rows
  /\ last' = [op |-> "bulkUpdate", updates |-> updates, outcome |-> "running"]
  /\ UNCHANGED <<rows, nextId, now, deleted>>

Next ==
  \/ Tick
  \/ \E data \in CreateInputs : CallCreate(data)
  \/ \E id \in CallIds : CallGetById(id)
  \/ \E id \in CallIds, data \in Partials : CallUpdate(id, data)
  \/ \E id \in CallIds : CallDelete(id)
  \/ \E disasters \in InsertBatches, ok \in BOOLEAN : CallBulkInsert(disasters, ok)
  \/ \E updates \in UpdateBatches : CallBulkUpdate(updates)
  \/ \E ok \in BOOLEAN : bulkUpdateItem(ok)
  \/ bulkUpdateCommit
  \/ \E body \in PostBodies, ok \in BOOLEAN :
        /\ bulkInsertSchema(body) => nextId + Len(body.items) - 1 <= MaxId
        /\ router_post_bulk(body, NoAccept, ok)
  \/ \E body \in PutBodies : router_put_bulk(body, NoAccept)

\* the service and the bulk routes on a table of a few records
Spec == Init /\ [][Next]_vars

NextQuery ==
  \/ Tick
  \/ \E data \in CreateInputs : CallCreate(data)
  \/ \E id \in CallIds : CallDelete(id)
  \/ \E skip \in SmallSkips, limit \in SmallLimits, filter \in Filters, tieAsc \in BOOLEAN :
        CallGetAll(skip, limit, filter, tieAsc)
  \/ \E filter \in Filters : CallCount(filter)
  \/ \E page \in SmallPages, limit \in SmallLimits, filter \in Filters, tieAsc \in BOOLEAN :
        router_get(page, limit, filter, NoAccept, tieAsc)
  \/ \E page \in SmallPages, limit \in SmallLimits, filter \in Filters, tieAsc \in BOOLEAN :
        Query_disasters(page, limit, filter, tieAsc)

\* listing and counting on a table of a few records
SpecQuery == Init /\ [][NextQuery]_vars

\* the documented maximum of items of a bulk request
MaxBulkItems == 100

BigSizes == {MaxBulkItems, MaxBulkItems + 1}

\* a body of n items: n records to create, or n updates of the ids 1 .. n
BigPostBody(n) ==
  Body([i \in 1 .. n |->
          [type |-> JStr("fire"), location |-> JPoint("Point", <<1, 2>>),
           date |-> JStr("1970-01-01"), status |-> JStr("active")]])

BigPutBody(n) == Body([i \in 1 .. n |-> [id |-> JNum(i), status |-> JStr("resolved")]])

BigSkips == {Undef, Num(-1), NaN}
BigLimits == {Undef, Num(0), Num(-5), Num(MaxLimit + 1), NaN, PosInf}
BigPages == {Undef, Num(0)}
BigIntLimits == {Undef, Num(0), Num(-5), Num(MaxLimit + 1)}

NextBig ==
  \/ \E n \in BigSizes :
        /\ nextId + n - 1 <= MaxBulkItems + 1
        /\ router_post_bulk(BigPostBody(n), NoAccept, TRUE)
  \/ \E n \in BigSizes \cup {1} : router_put_bulk(BigPutBody(n), NoAccept)
  \/ \E skip \in BigSkips, limit \in BigLimits : CallGetAll(skip, limit, NoFilter, TRUE)
  \/ \E page \in BigSkips, limit \in BigLimits : router_get(page, limit, NoFilter, NoAccept, TRUE)
  \/ \E page \in BigPages, limit \in BigIntLimits : Query_disasters(page, limit, NoFilter, TRUE)

\* bulk requests of 100 and 101 items, and listing a table of as many records
SpecBig == Init /\ [][NextBig]_vars


---------------------------------------------------------------------------
(* The REST routes of one record (routes/disasters) *)

\* req.params.id: whether the string is made of digits only, and the number
\* parseInt reads from it: n, or MaxSerial + n for a wide id
PathId(digits, n) == [digits |-> digits, n |-> n, wide |-> FALSE]
WideId(n) == [digits |-> TRUE, n |-> n, wide |-> TRUE]

\* isValidNumericId: /^\d+$/.test(id) && parseInt(id, 10) > 0
isValidNumericId(id) == id.digits /\ (id.wide \/ id.n > 0)

\* the largest value of the id column (SERIAL, a 32-bit integer)
MaxSerial == 2147483647

\* WHERE id = $1: the store takes the parameter as a value of the id column
\* and rejects the statement when the value is out of its range
InRange(id) == ~id.wide /\ id.n <= MaxSerial

\* the messages Joi reports for a body under disasterSchema with the keys of
\* required made required and the others optional, abortEarly off
SchemaMessages(item, required) ==
  (IF ~Has(item, "type")
     THEN (IF "type" \in required THEN <<"\"type\" is required">> ELSE <<>>)
   ELSE IF item["type"].t # "string" THEN <<"\"type\" must be a string">>
   ELSE IF item["type"].s = "" THEN <<"\"type\" is not allowed to be empty">>
   ELSE <<>>)
  \o (IF ~Has(item, "location")
        THEN (IF "location" \in required THEN <<"\"location\" is required">> ELSE <<>>)
      ELSE (IF item["location"].s # "Point" THEN <<"\"location.type\" must be [Point]">>
            ELSE <<>>)
           \o (IF Len(item["location"].c) # 2
                 THEN <<"\"location.coordinates\" must contain 2 items">>
               ELSE IF ~JoiLocation([item["location"] EXCEPT !.s = "Point"])
                 THEN <<"\"location.coordinates\" does not match any of the allowed types">>
               ELSE <<>>))
  \o (IF ~Has(item, "date")
        THEN (IF "date" \in required THEN <<"\"date\" is required">> ELSE <<>>)
      ELSE IF ~JoiIsoDate(item["date"]) THEN <<"\"date\" must be in iso format">>
      ELSE <<>>)
  \o (IF Has(item, "description") /\ ~JoiStringAllowEmpty(item["description"])
        THEN <<"\"description\" must be a string">> ELSE <<>>)
  \o (IF ~Has(item, "status")
        THEN (IF "status" \in required THEN <<"\"status\" is required">> ELSE <<>>)
      ELSE IF ~JoiStatus(item["status"])
        THEN <<"\"status\" must be one of [active, contained, resolved]">>
      ELSE <<>>)
  \o (IF DOMAIN item \subseteq InputKeys THEN <<>> ELSE <<"a key is not allowed">>)

\* the keys disasterSchema requires
SchemaRequired == {"type", "location", "date", "status"}

JoiMessages(item) == SchemaMessages(item, SchemaRequired)

\* a mapping that gives every message the same text
mapJoiErrorMessage_generic(msg) == "Invalid input"

\* mapJoiErrorMessage
mapJoiErrorMessage(msg) ==
  CASE msg = "\"type\" is required" -> "type (string) is required"
    [] msg = "\"location\" is required" -> "location (object) is required"
    [] msg = "\"date\" is required" -> "date (ISO string) is required"
    [] msg = "\"date\" must be in iso format" -> "date (ISO string) is required"
    [] msg = "\"lat\" must be a number" -> "lat (number) is required as query parameter"
    [] msg = "\"lng\" must be a number" -> "lng (number) is required as query parameter"
    [] msg = "\"distance\" must be a number" ->
         "distance (number, km) is required as query parameter"
    [] OTHER -> msg

\* error.details.map((d) => mapJoiErrorMessage(d.message))
Details(item) == [p \in 1 .. Len(JoiMessages(item)) |-> mapJoiErrorMessage(JoiMessages(item)[p])]

\* what a route of one record answers; an error is always sent as JSON
Answer(op, id, body, accept, status, error, details, format, data, store) ==
  [op |-> op, id |-> id, body |-> body, accept |-> accept, status |-> status,
   error |-> error, details |-> details, format |-> format, data |-> data,
   store |-> store]

\* the JSON object {}
EmptyObject == [k \in {} |-> JStr("")]
NoPathId == PathId(FALSE, 0)

InvalidId(op, id, body, accept) ==
  Answer(op, id, body, accept, 400, "Invalid ID format", <<>>, "json", <<>>, FALSE)

\* errorHandler: a statement the store rejects ends the request with 500
StoreError(op, id, body, accept) ==
  Answer(op, id, body, accept, 500, "Internal server error", <<>>, "json", <<>>, TRUE)

NotFound(op, id, body, accept) ==
  Answer(op, id, body, accept, 404, "Not found", <<>>, "json", <<>>, TRUE)

InvalidInput(op, id, body, accept) ==
  Answer(op, id, body, accept, 400, "Invalid input", Details(body), "json", <<>>, FALSE)

\* router.get('/:id')
router_get_id(id, accept) ==
  /\ bulk.pc = "idle"
  /\ prev' = rows
  /\ last' = IF ~isValidNumericId(id) THEN InvalidId("GET /:id", id, EmptyObject, accept)
             ELSE IF ~InRange(id) THEN StoreError("GET /:id", id, EmptyObject, accept)
             ELSE IF getDisasterById(rows, id.n) = Null
               THEN NotFound("GET /:id", id, EmptyObject, accept)
             ELSE Answer("GET /:id", id, EmptyObject, accept, 200, "", <<>>, FormatOf(accept),
                         Encoded(accept, getDisasterById(rows, id.n)), TRUE)
  /\ UNCHANGED <<rows, nextId, now, client, bulk, deleted>>

\* router.post('/')
router_post(body, accept) ==
  /\ bulk.pc = "idle"
  /\ prev' = rows
  /\ IF ~disasterSchema(body)
       THEN /\ last' = InvalidInput("POST /", NoPathId, body, accept)
            /\ UNCHANGED <<rows, nextId>>
       ELSE /\ createDisaster(DisasterInputDTO(body))
            /\ last' = Answer("POST /", NoPathId, body, accept, 201, "", <<>>, FormatOf(accept),
                              Encoded(accept, <<createResult(DisasterInputDTO(body))>>), TRUE)
  /\ UNCHANGED <<now, client, bulk, deleted>>

\* router.put('/:id')
router_put_id(id, body, accept) ==
  /\ bulk.pc = "idle"
  /\ prev' = rows
  /\ IF ~isValidNumericId(id)
       THEN /\ last' = InvalidId("PUT /:id", id, body, accept)
            /\ UNCHANGED rows
     ELSE IF ~disasterSchema(body)
       THEN /\ last' = InvalidInput("PUT /:id", id, body, accept)
            /\ UNCHANGED rows
     ELSE IF ~InRange(id)
       THEN /\ last' = StoreError("PUT /:id", id, body, accept)
            /\ UNCHANGED rows
     ELSE /\ rows' = UpdateTable(rows, id.n, DisasterInputDTO(body), now)
          /\ last' = IF UpdateResult(rows, id.n, DisasterInputDTO(body), now) = Null
                       THEN NotFound("PUT /:id", id, body, accept)
                       ELSE Answer("PUT /:id", id, body, accept, 200, "", <<>>, FormatOf(accept),
                                   Encoded(accept, UpdateResult(rows, id.n, DisasterInputDTO(body), now)),
                                   TRUE)
  /\ UNCHANGED <<nextId, now, client, bulk, deleted>>

\* router.delete('/:id'): 204 without a body, or an Empty message for a
\* client that wants Protobuf
router_delete_id(id, accept) ==
  /\ bulk.pc = "idle"
  /\ prev' = rows
  /\ IF ~isValidNumericId(id)
       THEN /\ last' = InvalidId("DELETE /:id", id, EmptyObject, accept)
            /\ UNCHANGED <<rows, deleted>>
     ELSE IF ~InRange(id)
       THEN /\ last' = StoreError("DELETE /:id", id, EmptyObject, accept)
            /\ UNCHANGED <<rows, deleted>>
     ELSE /\ deleteDisaster(id.n)
          /\ last' = IF ~deleteResult(id.n) THEN NotFound("DELETE /:id", id, EmptyObject, accept)
                     ELSE IF wantsProtobuf(accept)
                       THEN Answer("DELETE /:id", id, EmptyObject, accept, 200, "", <<>>,
                                   "protobuf", <<>>, TRUE)
                     ELSE Answer("DELETE /:id", id, EmptyObject, accept, 204, "", <<>>,
                                 "none", <<>>, TRUE)
  /\ UNCHANGED <<nextId, now, client, bulk>>

\* what a GraphQL operation on one record answers: data, or an error with
\* its extensions.code
GqlAnswer(op, id, body, code, message, data, store) ==
  [op |-> op, id |-> id, body |-> body, code |-> code, message |-> message,
   data |-> data, store |-> store]

\* input DisasterInput of the GraphQL schema: type, location, date and status
\* are non-null, so a request without one of them fails before the resolver
DisasterInputType(input) ==
  /\ DOMAIN input \subseteq InputKeys
  /\ SchemaRequired \subseteq DOMAIN input

\* the arguments of updateDisaster(_id: ID!, input: DisasterInput!)
UpdateArgs(id, input) == ("_id" :> <<id>>) @@ [input |-> <<input>>]

\* const { id } = args: undefined, here <<>>, for a key args does not have
ArgOf(args, key) == IF key \in DOMAIN args THEN args[key] ELSE <<>>

\* disasterSchema.fork(['type', 'location', 'date'], (f) => f.optional())
ForkedRequired == {"status"}

\* Mutation.updateDisaster
Mutation_updateDisaster(_id, input) ==
  /\ bulk.pc = "idle"
  /\ prev' = rows
  /\ LET op == "Mutation.updateDisaster"
         args == UpdateArgs(_id, input)
         id == ArgOf(args, "id")
         messages == SchemaMessages(input, ForkedRequired)
     IN IF ~DisasterInputType(input)
          THEN /\ last' = GqlAnswer(op, _id, input, "GRAPHQL_VALIDATION_FAILED",
                                    "input is no DisasterInput", <<>>, FALSE)
               /\ UNCHANGED rows
        ELSE IF id = <<>>
          THEN /\ last' = GqlAnswer(op, _id, input, "BAD_USER_INPUT", "Missing id", <<>>, FALSE)
               /\ UNCHANGED rows
        ELSE IF ~isValidNumericId(id[1])
          THEN /\ last' = GqlAnswer(op, _id, input, "BAD_USER_INPUT", "Invalid id format",
                                    <<>>, FALSE)
               /\ UNCHANGED rows
        ELSE IF messages # <<>>
          THEN /\ last' = GqlAnswer(op, _id, input, "BAD_USER_INPUT",
                                    mapJoiErrorMessage(messages[1]), <<>>, FALSE)
               /\ UNCHANGED rows
        ELSE IF ~InRange(id[1])
          THEN /\ last' = GqlAnswer(op, _id, input, "INTERNAL_ERROR",
                                    "Failed to update disaster", <<>>, TRUE)
               /\ UNCHANGED rows
        ELSE /\ rows' = UpdateTable(rows, id[1].n, DisasterInputDTO(input), now)
             /\ last' = IF UpdateResult(rows, id[1].n, DisasterInputDTO(input), now) = Null
                          THEN GqlAnswer(op, _id, input, "NOT_FOUND", "Not found", <<>>, TRUE)
                          ELSE GqlAnswer(op, _id, input, "", "",
                                 <<DisasterResponseDTO(
                                     UpdateResult(rows, id[1].n, DisasterInputDTO(input), now)[1])>>,
                                 TRUE)
  /\ UNCHANGED <<nextId, now, client, bulk, deleted>>

\* path ids: "abc", "0", the ids of the table, one past them, and one past
\* the range of the id column
PathIds ==
  {PathId(FALSE, 0), PathId(TRUE, 0), WideId(1)}
    \cup {PathId(TRUE, n) : n \in 1 .. MaxId + 1}

ValidBody(ty, coords, dt, st) ==
  [type |-> JStr(ty), location |-> JPoint("Point", coords), date |-> JStr(dt),
   status |-> JStr(st)]

\* request bodies of one record
RestBodies ==
  { ValidBody("fire", <<1, 2>>, "1970-01-01", "active"),
    ValidBody("flood", <<10, 20>>, "1970-01-02", "resolved"),
    [ValidBody("fire", <<0, 0>>, "1970-01-01", "active") EXCEPT
       !["location"] = JPointOf("Point", <<JNum(0), JNum(MaxLatitude + 10)>>)],
    [ValidBody("fire", <<0, 0>>, "1970-01-01", "active") EXCEPT
       !["location"] = JPointOf("Point", <<JNum(MaxLongitude + 10), JNum(0)>>)],
    [ValidBody("fire", <<0, 0>>, "1970-01-01", "active") EXCEPT
       !["location"] = JPointOf("Point", <<JNull, JNum(0)>>)],
    [type |-> JStr("fire"), location |-> JPoint("Point", <<1, 2>>), date |-> JStr("1970-01-01")],
    [status |-> JStr("contained")],
    EmptyObject }

NextRest ==
  \/ Tick
  \/ \E body \in RestBodies :
        /\ disasterSchema(body) => nextId <= MaxId
        /\ router_post(body, NoAccept)
  \/ \E id \in PathIds : router_get_id(id, NoAccept)
  \/ \E id \in PathIds, body \in RestBodies : router_put_id(id, body, NoAccept)
  \/ \E id \in PathIds : router_delete_id(id, NoAccept)
  \/ \E id \in PathIds, input \in RestBodies : Mutation_updateDisaster(id, input)

\* the routes and the mutation of one record on a table of a few records
SpecRest == Init /\ [][NextRest]_vars

---------------------------------------------------------------------------
(* The proximity query *)

\* a parameter of a query string: absent, or a string: one that Joi reads as
\* the number n, the empty string, a word, "NaN" or "Infinity"
QAbsent == [k |-> "absent", n |-> 0]
QNum(n) == [k |-> "number", n |-> n]
QEmpty == [k |-> "empty", n |-> 0]
QWord == [k |-> "word", n |-> 0]
QNaN == [k |-> "NaN", n |-> 0]
QInfinity == [k |-> "Infinity", n |-> 0]

\* the conversion of Joi.number() that turns the empty string into 0
Converts_emptyIsZero(q) == q.k \in {"number", "empty"}

\* Joi.number() with convert: a string that spells a finite number becomes
\* that number; no other string does
Converts(q) == q.k = "number"

\* the messages of Joi.number().min(lo).max(hi).required() for one parameter
ParamMessages(name, q, lo, hi) ==
  IF q.k = "absent" THEN <<"\"" \o name \o "\" is required">>
  ELSE IF ~Converts(q) THEN <<"\"" \o name \o "\" must be a number">>
  ELSE IF q.n < lo THEN <<"\"" \o name \o "\" must be greater than or equal to its minimum">>
  ELSE IF q.n > hi THEN <<"\"" \o name \o "\" must be less than or equal to its maximum">>
  ELSE <<>>

\* nearQuerySchema.validate(query, { abortEarly: false, convert: true });
\* distance has a minimum and no maximum
nearQueryMessages(query) ==
  ParamMessages("lat", query.lat, -MaxLatitude, MaxLatitude)
    \o ParamMessages("lng", query.lng, -MaxLongitude, MaxLongitude)
    \o ParamMessages("distance", query.distance, 0, query.distance.n)

nearQuerySchema(query) == nearQueryMessages(query) = <<>>

\* metres of one degree of longitude on the equator of the spheroid
MetresPerDegree == 111319

Abs(x) == IF x < 0 THEN -x ELSE x

\* ST_Distance of two geography points, in metres, for points of the
\* equator: the shorter arc between their longitudes
ST_Distance(p, q) ==
  CASE p[2] = 0 /\ q[2] = 0 ->
    LET d == Abs(p[1] - q[1])
    IN MetresPerDegree * (IF d > 180 THEN 360 - d ELSE d)

\* a WHERE clause that takes the distance for metres
ST_DWithin_metres(p, q, distanceKm) == ST_Distance(p, q) <= distanceKm

\* ST_DWithin(location, centre, $3 * 1000)
ST_DWithin(p, q, distanceKm) == ST_Distance(p, q) <= distanceKm * 1000

\* the ids of S by ascending distance from the centre; rows at the same
\* distance come in an order the store chooses
RECURSIVE ByDistance(_, _, _, _)
ByDistance(tbl, S, centre, tieAsc) ==
  IF S = {} THEN <<>>
  ELSE LET nearest == {i \in S : \A j \in S :
                         ST_Distance(tbl[i].location, centre) <= ST_Distance(tbl[j].location, centre)}
           first == CHOOSE i \in nearest :
                      \A j \in nearest : IF tieAsc THEN i <= j ELSE i >= j
       IN <<first>> \o ByDistance(tbl, S \ {first}, centre, tieAsc)

\* findDisastersNear({lat, lng, distance})
findDisastersNear(tbl, lng, lat, distanceKm, tieAsc) ==
  LET centre == <<lng, lat>>
      within == {i \in DOMAIN tbl : ST_DWithin(tbl[i].location, centre, distanceKm)}
      ids == ByDistance(tbl, within, centre, tieAsc)
  IN [p \in 1 .. Len(ids) |-> mapRowToDisaster(tbl[ids[p]])]

CallFindNear(lng, lat, distanceKm, tieAsc) ==
  /\ bulk.pc = "idle"
  /\ prev' = rows
  /\ last' = [op |-> "findNear", centre |-> <<lng, lat>>, distance |-> distanceKm,
              data |-> findDisastersNear(rows, lng, lat, distanceKm, tieAsc)]
  /\ UNCHANGED <<rows, nextId, now, client, bulk, deleted>>

NearQuery(lat, lng, distance) == [lat |-> lat, lng |-> lng, distance |-> distance]

\* router.get('/near')
router_get_near(query, accept, tieAsc) ==
  /\ bulk.pc = "idle"
  /\ prev' = rows
  /\ last' = IF ~nearQuerySchema(query)
               THEN [op |-> "GET /near", query |-> query, accept |-> accept, status |-> 400,
                     error |-> "Invalid query parameters",
                     details |-> [p \in 1 .. Len(nearQueryMessages(query)) |->
                                    mapJoiErrorMessage(nearQueryMessages(query)[p])],
                     format |-> "json", data |-> <<>>, store |-> FALSE]
               ELSE [op |-> "GET /near", query |-> query, accept |-> accept, status |-> 200,
                     error |-> "", details |-> <<>>, format |-> FormatOf(accept),
                     data |-> Encoded(accept, findDisastersNear(rows, query.lng.n, query.lat.n,
                                                                query.distance.n, tieAsc)),
                     store |-> TRUE]
  /\ UNCHANGED <<rows, nextId, now, client, bulk, deleted>>

\* records on the equator, and the parameters of the queries
NearBodies ==
  { ValidBody("fire", <<1, 0>>, "1970-01-01", "active"),
    ValidBody("flood", <<3, 0>>, "1970-01-02", "active"),
    ValidBody("storm", <<-1, 0>>, "1970-01-02", "active") }

NearLats == {QAbsent, QNum(0), QWord, QNum(MaxLatitude + 1)}
NearLngs == {QNum(0), QNum(1), QNum(-MaxLongitude - 1), QEmpty, QNaN}
NearDistances == {QAbsent, QNum(0), QNum(112), QNum(400), QNum(-1), QInfinity}

NextNear ==
  \/ \E body \in NearBodies :
        /\ nextId <= MaxId
        /\ router_post(body, NoAccept)
  \/ \E lng \in {0, 1}, distanceKm \in {0, 100, 112, 400}, tieAsc \in BOOLEAN :
        CallFindNear(lng, 0, distanceKm, tieAsc)
  \/ \E lat \in NearLats, lng \in NearLngs, distance \in NearDistances, tieAsc \in BOOLEAN :
        router_get_near(NearQuery(lat, lng, distance), NoAccept, tieAsc)

\* the proximity query on a table of a few records of the equator
SpecNear == Init /\ [][NextNear]_vars

-----------------------------------------------------------------------------
(* Content negotiation *)

\* Accept headers: none, the media type alone, first with white space around
\* it, second after another type, and first with a parameter
Accepts ==
  { NoAccept,
    <<ProtobufType>>,
    <<" ", ProtobufType, " ", ",", "application/json">>,
    <<"application/json", ",", ProtobufType>>,
    <<ProtobufType, ";q=0.9">> }

AcceptIds == {PathId(FALSE, 0), PathId(TRUE, 1), PathId(TRUE, MaxId + 1)}

AcceptBodies == {ValidBody("fire", <<1, 0>>, "1970-01-01", "active"), EmptyObject}

AcceptQueries == {NearQuery(QNum(0), QNum(0), QNum(400)), NearQuery(QWord, QNum(0), QAbsent)}

AcceptPostBodies == {NotAnArray, Body(<<ValidBody("flood", <<3, 0>>, "1970-01-02", "resolved")>>)}

AcceptPutBodies == {NotAnArray, Body(<<[id |-> JNum(1), status |-> JStr("resolved")]>>)}

NextAccept ==
  \/ \E body \in AcceptBodies, accept \in Accepts :
        /\ disasterSchema(body) => nextId <= MaxId
        /\ router_post(body, accept)
  \/ \E id \in AcceptIds, accept \in Accepts : router_get_id(id, accept)
  \/ \E id \in AcceptIds, body \in AcceptBodies, accept \in Accepts :
        router_put_id(id, body, accept)
  \/ \E id \in AcceptIds, accept \in Accepts : router_delete_id(id, accept)
  \/ \E accept \in Accepts : router_get(Undef, Undef, NoFilter, accept, TRUE)
  \/ \E query \in AcceptQueries, accept \in Accepts : router_get_near(query, accept, TRUE)
  \/ \E body \in AcceptPostBodies, accept \in Accepts, ok \in BOOLEAN :
        /\ bulkInsertSchema(body) => nextId + Len(body.items) - 1 <= MaxId
        /\ router_post_bulk(body, accept, ok)
  \/ \E body \in AcceptPutBodies, accept \in Accepts : router_put_bulk(body, accept)

\* every REST route under every Accept header on a table of a few records
SpecAccept == Init /\ [][NextAccept]_vars

-----------------------------------------------------------------------------
(* The three representations of a record *)

\* updateDisaster(id, { status: null }) writes SQL NULL: null is not undefined
RenderPartials ==
  { Input(Undefined, NoLocation, Undefined, Undefined, SqlNull),
    Input(Undefined, NoLocation, Undefined, "e", "contained") }

RenderAccepts == {NoAccept, <<ProtobufType>>}

NextRender ==
  \/ Tick
  \/ \E data \in CreateInputs : CallCreate(data)
  \/ \E id \in 1 .. MaxId, data \in RenderPartials : CallUpdate(id, data)
  \/ \E accept \in RenderAccepts : router_get(Undef, Undef, NoFilter, accept, TRUE)
  \/ \E id \in 1 .. MaxId, accept \in RenderAccepts : router_get_id(PathId(TRUE, id), accept)
  \/ Query_disasters(Undef, Undef, NoFilter, TRUE)

\* records read back as JSON, as protobuf and through GraphQL
SpecRender == Init /\ [][NextRender]_vars

-----------------------------------------------------------------------------
(* The GraphQL resolvers (graphql/resolvers under graphql/schema) *)

\* the arguments of an operation the schema declares with (_id: ID!)
IdArgs(_id) == ("_id" :> <<_id>>)

\* Query.disaster
Query_disaster(_id) ==
  /\ bulk.pc = "idle"
  /\ prev' = rows
  /\ LET op == "Query.disaster"
         id == ArgOf(IdArgs(_id), "id")
     IN last' =
          IF id = <<>> THEN GqlAnswer(op, _id, EmptyObject, "BAD_USER_INPUT", "Missing id", <<>>, FALSE)
          ELSE IF ~isValidNumericId(id[1])
            THEN GqlAnswer(op, _id, EmptyObject, "BAD_USER_INPUT", "Invalid id format", <<>>, FALSE)
          ELSE IF ~InRange(id[1])
            THEN GqlAnswer(op, _id, EmptyObject, "INTERNAL_ERROR", "Failed to fetch disaster",
                           <<>>, TRUE)
          ELSE IF getDisasterById(rows, id[1].n) = Null
            THEN GqlAnswer(op, _id, EmptyObject, "NOT_FOUND", "Not found", <<>>, TRUE)
          ELSE GqlAnswer(op, _id, EmptyObject, "", "",
                         <<DisasterResponseDTO(getDisasterById(rows, id[1].n)[1])>>, TRUE)
  /\ UNCHANGED <<rows, nextId, now, client, bulk, deleted>>

\* Mutation.createDisaster; ok = FALSE is the store rejecting the INSERT
Mutation_createDisaster(input, ok) ==
  /\ bulk.pc = "idle"
  /\ prev' = rows
  /\ LET op == "Mutation.createDisaster"
         messages == SchemaMessages(input, SchemaRequired)
     IN IF ~DisasterInputType(input)
          THEN /\ last' = GqlAnswer(op, NoPathId, input, "GRAPHQL_VALIDATION_FAILED",
                                    "input is no DisasterInput", <<>>, FALSE)
               /\ UNCHANGED <<rows, nextId>>
        ELSE IF messages # <<>>
          THEN /\ last' = GqlAnswer(op, NoPathId, input, "BAD_USER_INPUT",
                                    mapJoiErrorMessage(messages[1]), <<>>, FALSE)
               /\ UNCHANGED <<rows, nextId>>
        ELSE IF ~ok
          THEN /\ last' = GqlAnswer(op, NoPathId, input, "INTERNAL_ERROR",
                                    "Failed to create disaster", <<>>, TRUE)
               /\ UNCHANGED <<rows, nextId>>
        ELSE /\ createDisaster(DisasterInputDTO(input))
             /\ last' = GqlAnswer(op, NoPathId, input, "", "",
                                  <<DisasterResponseDTO(createResult(DisasterInputDTO(input)))>>,
                                  TRUE)
  /\ UNCHANGED <<now, client, bulk, deleted>>

\* Mutation.deleteDisaster
Mutation_deleteDisaster(_id) ==
  /\ bulk.pc = "idle"
  /\ prev' = rows
  /\ LET op == "Mutation.deleteDisaster"
         id == ArgOf(IdArgs(_id), "id")
     IN IF id = <<>>
          THEN /\ last' = GqlAnswer(op, _id, EmptyObject, "BAD_USER_INPUT", "Missing id",
                                    <<>>, FALSE)
               /\ UNCHANGED <<rows, deleted>>
        ELSE IF ~isValidNumericId(id[1])
          THEN /\ last' = GqlAnswer(op, _id, EmptyObject, "BAD_USER_INPUT", "Invalid id format",
                                    <<>>, FALSE)
               /\ UNCHANGED <<rows, deleted>>
        ELSE IF ~InRange(id[1])
          THEN /\ last' = GqlAnswer(op, _id, EmptyObject, "INTERNAL_ERROR",
                                    "Failed to delete disaster", <<>>, TRUE)
               /\ UNCHANGED <<rows, deleted>>
        ELSE /\ deleteDisaster(id[1].n)
             /\ last' = IF ~deleteResult(id[1].n)
                          THEN GqlAnswer(op, _id, EmptyObject, "NOT_FOUND", "Not found", <<>>, TRUE)
                          ELSE GqlAnswer(op, _id, EmptyObject, "", "", <<TRUE>>, TRUE)
  /\ UNCHANGED <<nextId, now, client, bulk>>

\* the object { disasters } the resolver hands to bulkInsertSchema: an
\* object, whatever disasters is, and so no array
ObjectOf(disasters) == NotAnArray

\* Mutation.bulkInsertDisasters(inputs: [DisasterInput!]!): the resolver
\* reads the argument disasters and validates { disasters }
Mutation_bulkInsertDisasters(inputs, ok) ==
  /\ bulk.pc = "idle"
  /\ prev' = rows
  /\ LET op == "Mutation.bulkInsertDisasters"
         disasters == ArgOf([inputs |-> inputs], "disasters")
         dtos == [i \in 1 .. Len(disasters) |-> DisasterInputDTO(disasters[i])]
     IN IF \E i \in 1 .. Len(inputs) : ~DisasterInputType(inputs[i])
          THEN /\ last' = GqlAnswer(op, NoPathId, Body(inputs), "GRAPHQL_VALIDATION_FAILED",
                                    "inputs is no [DisasterInput!]", <<>>, FALSE)
               /\ UNCHANGED <<rows, nextId>>
        ELSE IF ~bulkInsertSchema(ObjectOf(disasters))
          THEN /\ last' = GqlAnswer(op, NoPathId, Body(inputs), "BAD_USER_INPUT",
                                    "\"value\" must be an array", <<>>, FALSE)
               /\ UNCHANGED <<rows, nextId>>
        ELSE /\ bulkInsertDisasters(dtos, ok)
             /\ last' = IF ok
                          THEN GqlAnswer(op, NoPathId, Body(inputs), "", "",
                                 [i \in 1 .. Len(dtos) |->
                                    DisasterResponseDTO(bulkInsertResult(dtos)[i])], TRUE)
                          ELSE GqlAnswer(op, NoPathId, Body(inputs), "INTERNAL_ERROR",
                                         "Failed to bulk insert disasters", <<>>, TRUE)
  /\ UNCHANGED <<now, client, bulk, deleted>>

\* input DisasterUpdateInput of the schema: _id, and any of the five fields
DisasterUpdateInputType(update) ==
  /\ DOMAIN update \subseteq {"_id"} \cup InputKeys
  /\ Has(update, "_id")

\* ({ id, input }) => ({ id: parseInt(id, 10), ...input }) on an update of
\* the schema, which has neither key: { id: NaN }
ValidationItem(update) ==
  LET id == ArgOf(update, "id")
      input == ArgOf(update, "input")
  IN (IF id = <<>> THEN [id |-> JNull] ELSE [id |-> JNum(id[1].n)])
       @@ (IF input = <<>> THEN EmptyObject ELSE input[1])

\* Mutation.bulkUpdateDisasters(updates: [DisasterUpdateInput!]!)
Mutation_bulkUpdateDisasters(updates) ==
  /\ bulk.pc = "idle"
  /\ prev' = rows
  /\ LET op == "Mutation.bulkUpdateDisasters"
         validationArray == [i \in 1 .. Len(updates) |-> ValidationItem(updates[i])]
     IN IF \E i \in 1 .. Len(updates) : ~DisasterUpdateInputType(updates[i])
          THEN /\ last' = GqlAnswer(op, <<>>, Body(updates), "GRAPHQL_VALIDATION_FAILED",
                                    "updates is no [DisasterUpdateInput!]", <<>>, FALSE)
               /\ UNCHANGED <<client, bulk>>
        ELSE IF ~bulkUpdateSchema(Body(validationArray))
          THEN /\ last' = GqlAnswer(op, <<>>, Body(updates), "BAD_USER_INPUT",
                                    "Invalid input", <<>>, FALSE)
               /\ UNCHANGED <<client, bulk>>
        ELSE /\ bulkUpdateBegin("graphql", Body(updates), NoAccept,
                                [i \in 1 .. Len(validationArray) |->
                                   UpdateOfItem(validationArray[i])])
             /\ last' = [op |-> op, body |-> Body(updates), code |-> "running"]
  /\ UNCHANGED <<rows, nextId, now, deleted>>

\* the ids, inputs and updates of the GraphQL requests
GqlInputs ==
  { ValidBody("fire", <<1, 2>>, "1970-01-01", "active"),
    ValidBody("flood", <<10, 20>>, "1970-01-02", "resolved"),
    ValidBody("", <<1, 2>>, "1970-01-01", "active"),
    [status |-> JStr("contained")] }

GqlUpdates ==
  { ("_id" :> JStr("1")) @@ [status |-> JStr("resolved")],
    ("_id" :> JStr("abc")) @@ [type |-> JStr("fire")] }

GqlBatches(items) == UNION {[1 .. n -> items] : n \in 0 .. MaxBatch}

NextGql ==
  \/ Tick
  \/ \E data \in CreateInputs : CallCreate(data)
  \/ \E id \in PathIds : Query_disaster(id)
  \/ \E input \in GqlInputs, ok \in BOOLEAN :
        /\ disasterSchema(input) => nextId <= MaxId
        /\ Mutation_createDisaster(input, ok)
  \/ \E id \in PathIds, input \in GqlInputs : Mutation_updateDisaster(id, input)
  \/ \E id \in PathIds : Mutation_deleteDisaster(id)
  \/ \E inputs \in GqlBatches(GqlInputs), ok \in BOOLEAN :
        Mutation_bulkInsertDisasters(inputs, ok)
  \/ \E updates \in GqlBatches(GqlUpdates) : Mutation_bulkUpdateDisasters(updates)

\* the GraphQL operations on a table of a few records
SpecGql == Init /\ [][NextGql]_vars

-----------------------------------------------------------------------------
(* The service called with any value as id *)

\* WHERE id = $1 with a parameter that is no integer: the store rejects the
\* statement (invalid input syntax for type integer), and so it does a
\* parameter beyond the range of the column
StoreTakes(id) == id.digits /\ InRange(id)

\* what the caller of a service function sees: the value returned, or the
\* rejection of pool.query
Returned(op, id, result) == [op |-> op, id |-> id, outcome |-> "returned", result |-> result]
Raised(op, id) == [op |-> op, id |-> id, outcome |-> "raised", result |-> Null]

\* getDisasterById(id): no check of id before the statement
Service_getDisasterById(id) ==
  /\ bulk.pc = "idle"
  /\ prev' = rows
  /\ last' = IF StoreTakes(id)
               THEN Returned("getDisasterById", id, getDisasterById(rows, id.n))
               ELSE Raised("getDisasterById", id)
  /\ UNCHANGED <<rows, nextId, now, client, bulk, deleted>>

\* updateDisaster(id, data): with fields the UPDATE, without any the SELECT
\* of getDisasterById, either with id as its parameter
Service_updateDisaster(id, data) ==
  /\ bulk.pc = "idle"
  /\ prev' = rows
  /\ IF StoreTakes(id)
       THEN /\ rows' = UpdateTable(rows, id.n, data, now)
            /\ last' = Returned("updateDisaster", id, UpdateResult(rows, id.n, data, now))
       ELSE /\ rows' = rows
            /\ last' = Raised("updateDisaster", id)
  /\ UNCHANGED <<nextId, now, client, bulk, deleted>>

\* deleteDisaster(id)
Service_deleteDisaster(id) ==
  /\ bulk.pc = "idle"
  /\ prev' = rows
  /\ IF StoreTakes(id)
       THEN /\ deleteDisaster(id.n)
            /\ last' = Returned("deleteDisaster", id, <<deleteResult(id.n)>>)
       ELSE /\ UNCHANGED <<rows, deleted>>
            /\ last' = Raised("deleteDisaster", id)
  /\ UNCHANGED <<nextId, now, client, bulk>>

\* ids a caller may pass: '' and 'not-a-uuid' (no digits), 0, the ids of the
\* table and one past them
ServiceIds == {PathId(FALSE, 0), PathId(FALSE, 1)} \cup {PathId(TRUE, n) : n \in 0 .. MaxId + 1}

NextService ==
  \/ Tick
  \/ \E data \in CreateInputs : CallCreate(data)
  \/ \E id \in ServiceIds : Service_getDisasterById(id)
  \/ \E id \in ServiceIds, data \in Partials : Service_updateDisaster(id, data)
  \/ \E id \in ServiceIds : Service_deleteDisaster(id)

\* getById, update and delete of the service under every kind of id
SpecService == Init /\ [][NextService]_vars

-----------------------------------------------------------------------------
(* The requests that write a status *)

\* a body of a record with the JSON value st as its status
BodyWithStatus(st) ==
  [type |-> JStr("fire"), location |-> JPoint("Point", <<1, 2>>), date |-> JStr("1970-01-01"),
   status |-> st]

\* the three statuses, one that is none of them, the empty string, null, and
\* a body without status
StatusBodies ==
  {BodyWithStatus(JStr(st)) : st \in Statuses \cup {"bogus", ""}}
    \cup { BodyWithStatus(JNull),
           [type |-> JStr("fire"), location |-> JPoint("Point", <<1, 2>>),
            date |-> JStr("1970-01-01")] }

StatusPartials == {[status |-> JStr("contained")], [status |-> JNull], [status |-> JStr("bogus")]}

StatusUpdates ==
  { [id |-> JNum(1), status |-> JStr("resolved")],
    [id |-> JNum(1), status |-> JNull],
    ("_id" :> JStr("1")) @@ [status |-> JStr("bogus")] }

StatusIds == {PathId(TRUE, n) : n \in 1 .. MaxId}

NextStatus ==
  \/ \E body \in StatusBodies :
        /\ disasterSchema(body) => nextId <= MaxId
        /\ router_post(body, NoAccept)
  \/ \E body \in StatusBodies, ok \in BOOLEAN :
        /\ disasterSchema(body) => nextId <= MaxId
        /\ router_post_bulk(Body(<<body>>), NoAccept, ok)
  \/ \E id \in StatusIds, body \in StatusBodies \cup StatusPartials :
        router_put_id(id, body, NoAccept)
  \/ \E item \in StatusUpdates : router_put_bulk(Body(<<item>>), NoAccept)
  \/ \E input \in StatusBodies, ok \in BOOLEAN :
        /\ disasterSchema(input) => nextId <= MaxId
        /\ Mutation_createDisaster(input, ok)
  \/ \E id \in StatusIds, input \in StatusBodies \cup StatusPartials :
        Mutation_updateDisaster(id, input)
  \/ \E input \in StatusBodies, ok \in BOOLEAN : Mutation_bulkInsertDisasters(<<input>>, ok)
  \/ \E update \in StatusUpdates : Mutation_bulkUpdateDisasters(<<update>>)

\* every request of REST and GraphQL that may write a status
SpecStatus == Init /\ [][NextStatus]_vars

-----------------------------------------------------------------------------
(* Reads while a bulk update runs *)

\* getDisasterById(id) from another request while the loop of
\* bulkUpdateDisasters runs: a statement of its own through pool.query, which
\* reads what is committed
Concurrent_getDisasterById(id) ==
  /\ bulk.pc = "loop"
  /\ last' = [op |-> "getById during bulkUpdate", id |-> id, batch |-> bulk.updates,
              result |-> getDisasterById(rows, id)]
  /\ UNCHANGED <<rows, nextId, now, client, bulk, deleted, prev>>

\* getAllDisasters() from another request while the loop runs
Concurrent_getAllDisasters(tieAsc) ==
  /\ bulk.pc = "loop"
  /\ last' = [op |-> "list during bulkUpdate", tieAsc |-> tieAsc, batch |-> bulk.updates,
              data |-> getAllDisasters(rows, Undef, Undef, NoFilter, tieAsc)]
  /\ UNCHANGED <<rows, nextId, now, client, bulk, deleted, prev>>

NextConcurrent ==
  \/ \E data \in CreateInputs : CallCreate(data)
  \/ \E updates \in UpdateBatches : CallBulkUpdate(updates)
  \/ \E ok \in BOOLEAN : bulkUpdateItem(ok)
  \/ bulkUpdateCommit
  \/ \E id \in CallIds : Concurrent_getDisasterById(id)
  \/ \E tieAsc \in BOOLEAN : Concurrent_getAllDisasters(tieAsc)

\* bulk updates of the service with reads of other requests in between
SpecConcurrent == Init /\ [][NextConcurrent]_vars

-----------------------------------------------------------------------------
(* Bulk updates that run at the same time on one pool *)

\* new Pool({ connectionString }): the connections the pool may open (max),
\* and the calls of bulkUpdateDisasters in flight, one more than that
PoolSize == 2
PoolCalls == 1 .. (PoolSize + 1)

\* In this specification bulk holds one record per call of
\* bulkUpdateDisasters and client the number of pool connections checked out.
\* A call: not started; waiting in pool.connect(); in its loop before item i;
\* inside the statement of item i; or ended
NoCall == [pc |-> "none", updates |-> <<>>, i |-> 0, modifiedCount |-> 0, outcome |-> ""]

InitPool ==
  /\ rows = Put(<< >>, 1, NewRow(1, Input("fire", <<1, 2>>, "1970-01-01", "d", Undefined), 0))
  /\ nextId = 2
  /\ now = 0
  /\ client = [inUse |-> 0]
  /\ bulk = [pc |-> "pool", calls |-> [c \in PoolCalls |-> NoCall]]
  /\ deleted = {}
  /\ prev = << >>
  /\ last = [op |-> "init"]

PoolCall(c, call) == bulk' = [bulk EXCEPT !.calls[c] = call]

\* a request calls bulkUpdateDisasters(updates): it asks pool.connect()
Pool_call(c, updates) ==
  /\ bulk.calls[c].pc = "none"
  /\ PoolCall(c, [NoCall EXCEPT !.pc = "connect", !.updates = updates, !.i = 1])
  /\ UNCHANGED <<rows, nextId, now, client, deleted, prev, last>>

\* pool.connect() resolves when a connection is free; BEGIN on that client
Pool_connect(c) ==
  /\ bulk.calls[c].pc = "connect"
  /\ client.inUse < PoolSize
  /\ client' = [inUse |-> client.inUse + 1]
  /\ PoolCall(c, [bulk.calls[c] EXCEPT !.pc = "loop"])
  /\ UNCHANGED <<rows, nextId, now, deleted, prev, last>>

\* updateDisaster(id, data) of item i: pool.query takes a connection of its
\* own for the statement, and waits while none is free
Pool_query(c) ==
  /\ bulk.calls[c].pc = "loop"
  /\ bulk.calls[c].i <= Len(bulk.calls[c].updates)
  /\ client.inUse < PoolSize
  /\ client' = [inUse |-> client.inUse + 1]
  /\ PoolCall(c, [bulk.calls[c] EXCEPT !.pc = "query"])
  /\ UNCHANGED <<rows, nextId, now, deleted, prev, last>>

\* the statement ends and its connection goes back to the pool; ok = FALSE is
\* the statement failing: ROLLBACK, client.release(), rethrow
Pool_queryEnd(c, ok) ==
  /\ bulk.calls[c].pc = "query"
  /\ LET call == bulk.calls[c]
         u == call.updates[call.i]
     IN IF ok
          THEN /\ rows' = UpdateTable(rows, u.id, u.data, now)
               /\ client' = [inUse |-> client.inUse - 1]
               /\ PoolCall(c, [call EXCEPT !.pc = "loop", !.i = @ + 1,
                                           !.modifiedCount =
                                              IF UpdateResult(rows, u.id, u.data, now) # Null
                                                THEN @ + 1 ELSE @])
               /\ UNCHANGED <<prev, last>>
          ELSE /\ rows' = rows
               /\ client' = [inUse |-> client.inUse - 2]
               /\ PoolCall(c, [call EXCEPT !.pc = "ended", !.outcome = "error"])
               /\ prev' = rows
               /\ last' = [op |-> "bulkUpdate", updates |-> call.updates, outcome |-> "error",
                           result |-> [matchedCount |-> Len(call.updates),
                                       modifiedCount |-> call.modifiedCount]]
  /\ UNCHANGED <<nextId, now, deleted>>

\* after the loop: COMMIT, client.release(), return the two counts
Pool_commit(c) ==
  /\ bulk.calls[c].pc = "loop"
  /\ bulk.calls[c].i > Len(bulk.calls[c].updates)
  /\ client' = [inUse |-> client.inUse - 1]
  /\ PoolCall(c, [bulk.calls[c] EXCEPT !.pc = "ended", !.outcome = "ok"])
  /\ prev' = rows
  /\ last' = [op |-> "bulkUpdate", updates |-> bulk.calls[c].updates, outcome |-> "ok",
              result |-> [matchedCount |-> Len(bulk.calls[c].updates),
                          modifiedCount |-> bulk.calls[c].modifiedCount]]
  /\ UNCHANGED <<rows, nextId, now, deleted>>

\* the batches of the calls: empty, one item, two items
PoolBatches ==
  { <<>>,
    <<Update(1, Input(Undefined, NoLocation, Undefined, Undefined, "contained"))>>,
    <<Update(1, Input(Undefined, NoLocation, Undefined, Undefined, "resolved")),
      Update(2, Input(Undefined, NoLocation, Undefined, Undefined, "contained"))>> }

NextPool ==
  \/ \E c \in PoolCalls, updates \in PoolBatches : Pool_call(c, updates)
  \/ \E c \in PoolCalls : Pool_connect(c)
  \/ \E c \in PoolCalls : Pool_query(c)
  \/ \E c \in PoolCalls, ok \in BOOLEAN : Pool_queryEnd(c, ok)
  \/ \E c \in PoolCalls : Pool_commit(c)

\* calls of bulkUpdateDisasters in flight together on one pool
SpecPool == InitPool /\ [][NextPool]_vars

\* the pool serves whoever waits when a connection is free, and a statement
\* under way ends
FairPool ==
  \A c \in PoolCalls :
    /\ WF_vars(Pool_connect(c))
    /\ WF_vars(Pool_query(c))
    /\ WF_vars(\E ok \in BOOLEAN : Pool_queryEnd(c, ok))
    /\ WF_vars(Pool_commit(c))

SpecPoolFair == SpecPool /\ FairPool

-----------------------------------------------------------------------------
(* Two updates of one record at the same time *)

\* In this specification bulk holds the two calls of updateDisaster in
\* flight. A call: not made; its UPDATE sent and not yet run by the store;
\* or returned
NoUpdate == [pc |-> "none", id |-> 0, data |-> NoFields, result |-> Null]

PairCalls == {1, 2}

\* a table of two records, made by createDisaster at clock 0
InitPair ==
  /\ rows = InsertAll(<< >>, 1, <<Input("fire", <<1, 2>>, "1970-01-01", "d", Undefined),
                                  Input("flood", <<10, 20>>, "86400000", Undefined, "resolved")>>, 0)
  /\ nextId = 3
  /\ now = 0
  /\ client = NoClient
  /\ bulk = [pc |-> "updates", calls |-> [c \in PairCalls |-> NoUpdate]]
  /\ deleted = {}
  /\ prev = rows
  /\ last = [op |-> "init"]

\* updateDisaster(id, data) up to its await: the SET clause is built from
\* data alone and the one statement is handed to pool.query
Pair_updateDisaster(c, id, data) ==
  /\ bulk.calls[c].pc = "none"
  /\ bulk' = [bulk EXCEPT !.calls[c] = [pc |-> "sent", id |-> id, data |-> data,
                                        result |-> Null]]
  /\ UNCHANGED <<rows, nextId, now, client, deleted, prev, last>>

\* the store runs the statement of call c: one UPDATE ... RETURNING under the
\* lock of its row (the SELECT of getDisasterById for an empty SET clause)
Pair_statement(c) ==
  /\ bulk.calls[c].pc = "sent"
  /\ LET call == bulk.calls[c] IN
       /\ rows' = UpdateTable(rows, call.id, call.data, now)
       /\ bulk' = [bulk EXCEPT !.calls[c] =
                     [call EXCEPT !.pc = "returned",
                                  !.result = UpdateResult(rows, call.id, call.data, now)]]
       /\ last' = [op |-> "update", id |-> call.id, data |-> call.data,
                   result |-> UpdateResult(rows, call.id, call.data, now)]
  /\ UNCHANGED <<nextId, now, client, deleted, prev>>

\* time passes in the store while the calls are in flight
Pair_tick ==
  /\ now < MaxClock
  /\ now' = now + 1
  /\ UNCHANGED <<rows, nextId, client, bulk, deleted, prev, last>>

PairPartials ==
  { NoFields,
    Input(Undefined, NoLocation, Undefined, Undefined, "contained"),
    Input(Undefined, NoLocation, Undefined, "e", "resolved"),
    Input("storm", <<3, 4>>, "129600000", Undefined, Undefined) }

NextPair ==
  \/ \E c \in PairCalls, id \in 1 .. MaxId, data \in PairPartials : Pair_updateDisaster(c, id, data)
  \/ \E c \in PairCalls : Pair_statement(c)
  \/ Pair_tick

\* two calls of updateDisaster in flight together
SpecPair == InitPair /\ [][NextPair]_vars

-----------------------------------------------------------------------------
(* The error middleware (middleware/error) *)

\* an error's status property when it has none
NoStatus == [t |-> "undefined", s |-> "", n |-> 0, c |-> <<>>]

\* err: null, or an Error with its message and its optional status, code and
\* details (Undefined for a property the error does not have)
NullError == [isNull |-> TRUE, status |-> NoStatus, message |-> "", code |-> Undefined,
              details |-> Undefined]
AnError(status, message, code, details) ==
  [isNull |-> FALSE, status |-> status, message |-> message, code |-> code,
   details |-> details]

\* res: absent; a stand-in object without headersSent, with or without
\* status() and json(); or an Express response, whose headersSent is a boolean
NoResponse == [present |-> FALSE, headersSent |-> Undefined, writable |-> FALSE,
               requestId |-> Undefined]
StandIn(writable) == [present |-> TRUE, headersSent |-> Undefined, writable |-> writable,
                      requestId |-> Undefined]
ExpressResponse(sent, requestId) ==
  [present |-> TRUE, headersSent |-> IF sent THEN "true" ELSE "false", writable |-> TRUE,
   requestId |-> requestId]

\* the calls a handler makes on res and next, in order
StatusCall(status) == [fn |-> "res.status", status |-> status, body |-> <<>>, err |-> <<>>]
JsonCall(body) == [fn |-> "res.json", status |-> 0, body |-> <<body>>, err |-> <<>>]
NextCall(err) == [fn |-> "next", status |-> 0, body |-> <<>>, err |-> <<err>>]

\* if (!err) err = { name: 'Error', message: 'Unknown error' }
Defended(err) ==
  IF err.isNull THEN AnError(NoStatus, "Unknown error", Undefined, Undefined) ELSE err

\* x || y for strings: y when x is undefined or empty
StringOr(x, y) == IF x \in {Undefined, ""} THEN y ELSE x

\* the handler without its headersSent test
errorHandler_alwaysWrites(err, reqId, res) ==
  LET e == Defended(err) IN
    <<StatusCall(IF e.status.t = "number" THEN e.status.n ELSE 500),
      JsonCall([error |-> StringOr(e.message, "Internal server error"),
                requestId |-> StringOr(reqId, res.requestId),
                code |-> StringOr(e.code, Undefined),
                details |-> e.details])>>

\* errorHandler(logger)(err, req, res, next): the calls it makes. A key of the
\* body that is Undefined is a key the body does not have
errorHandler(err, reqId, res) ==
  LET e == Defended(err) IN
    IF ~res.present \/ res.headersSent = Undefined
      THEN IF res.present /\ res.writable
             THEN <<StatusCall(500),
                    JsonCall([error |-> StringOr(e.message, "Internal server error"),
                              requestId |-> Undefined,
                              code |-> e.code,
                              details |-> "[]"])>>
             ELSE << >>
    ELSE IF res.headersSent = "true" THEN <<NextCall(e)>>
    ELSE <<StatusCall(IF e.status.t = "number" THEN e.status.n ELSE 500),
           JsonCall([error |-> StringOr(e.message, "Internal server error"),
                     requestId |-> StringOr(reqId, res.requestId),
                     code |-> StringOr(e.code, Undefined),
                     details |-> e.details])>>

\* Express calls the handler with an error a route or a middleware raised
Handle(err, reqId, res) ==
  /\ bulk.pc = "idle"
  /\ prev' = rows
  /\ last' = [op |-> "errorHandler", err |-> err, reqId |-> reqId, res |-> res,
              calls |-> errorHandler(err, reqId, res)]
  /\ UNCHANGED <<rows, nextId, now, client, bulk, deleted>>

Errors ==
  {NullError} \cup
  { AnError(st, msg, code, det) :
      st \in {NoStatus, JNum(400), JNum(503), JStr("not-a-number")},
      msg \in {"", "boom"},
      code \in {Undefined, "E123"},
      det \in {Undefined, "[foo]"} }

Responses ==
  {NoResponse} \cup { StandIn(w) : w \in BOOLEAN } \cup
  { ExpressResponse(sent, rid) : sent \in BOOLEAN, rid \in {Undefined, "r1"} }

NextError ==
  \E err \in Errors, reqId \in {Undefined, "test-id"}, res \in Responses :
    Handle(err, reqId, res)

\* the error middleware called with every error and response
SpecError == Init /\ [][NextError]_vars

-----------------------------------------------------------------------------
(* Pages of the GraphQL list *)

\* the Int arguments a query may carry: absent, negative, zero and positive
IntPages == {Undef, Num(-1), Num(0), Num(1), Num(2)}
IntLimits == {Undef, Num(-2), Num(0), Num(1), Num(2)}

NextPage ==
  \/ \E data \in CreateInputs : CallCreate(data)
  \/ \E page \in IntPages, limit \in IntLimits, tieAsc \in BOOLEAN :
        Query_disasters(page, limit, NoFilter, tieAsc)

\* Query.disasters with every sign of page and limit
SpecPage == Init /\ [][NextPage]_vars

-----------------------------------------------------------------------------
(* Shutdown of the server process (index, app) *)

\* In this specification bulk holds the process: the listeners of SIGTERM and
\* SIGINT in the order they were registered, the HTTP server (listening,
\* closing after close(), closed), the requests in flight, the force-exit
\* timers armed, the signals delivered, and the exit code once exited
MaxOpen == 8
MaxSignals == 3

\* app registers gracefulShutdown when it is loaded, unless the signal has a
\* listener already; index registers shutdown later, in start()
ListenersOf(appRegisters) ==
  IF appRegisters THEN <<"gracefulShutdown", "shutdown">> ELSE <<"shutdown">>

InitShutdown ==
  /\ rows = << >>
  /\ nextId = 1
  /\ now = 0
  /\ client = NoClient
  /\ \E appRegisters \in BOOLEAN :
       bulk = [pc |-> "process", listeners |-> ListenersOf(appRegisters),
               server |-> "listening", open |-> 0, timers |-> 0, signals |-> 0,
               exited |-> FALSE, code |-> 0]
  /\ deleted = {}
  /\ prev = rows
  /\ last = [op |-> "init"]

\* process.exit(code)
Exit(p, code) == [p EXCEPT !.exited = TRUE, !.code = code]

\* gracefulShutdown(signal) of app: logs and process.exit(0)
gracefulShutdown(p) == Exit(p, 0)

\* shutdown() of index: server.close(callback) and the 10 s timer
shutdown(p) == [p EXCEPT !.server = "closing", !.timers = @ + 1]

\* process emits the signal: its listeners run in order, while the process lives
RECURSIVE Emit(_, _)
Emit(p, listeners) ==
  IF listeners = << >> \/ p.exited THEN p
  ELSE Emit(IF Head(listeners) = "gracefulShutdown" THEN gracefulShutdown(p) ELSE shutdown(p),
            Tail(listeners))

Running == bulk.pc = "process" /\ ~bulk.exited

Signal(sig) ==
  /\ Running
  /\ bulk.signals < MaxSignals
  /\ bulk' = Emit([bulk EXCEPT !.signals = @ + 1], bulk.listeners)
  /\ last' = [op |-> "signal", signal |-> sig]
  /\ UNCHANGED <<rows, nextId, now, client, deleted, prev>>

\* a request arrives at a server that accepts connections
Server_request ==
  /\ Running
  /\ bulk.server = "listening"
  /\ bulk.open < MaxOpen
  /\ bulk' = [bulk EXCEPT !.open = @ + 1]
  /\ last' = [op |-> "request"]
  /\ UNCHANGED <<rows, nextId, now, client, deleted, prev>>

\* a request in flight is answered and its connection ends
Server_response ==
  /\ Running
  /\ bulk.open > 0
  /\ bulk' = [bulk EXCEPT !.open = @ - 1]
  /\ last' = [op |-> "response"]
  /\ UNCHANGED <<rows, nextId, now, client, deleted, prev>>

\* the server emits 'close' when no connection is left after close(): the
\* callback logs and process.exit(0)
Server_close ==
  /\ Running
  /\ bulk.server = "closing"
  /\ bulk.open = 0
  /\ bulk' = Exit([bulk EXCEPT !.server = "closed"], 0)
  /\ last' = [op |-> "close"]
  /\ UNCHANGED <<rows, nextId, now, client, deleted, prev>>

\* a force-exit timer fires: process.exit(1)
Timer_fire ==
  /\ Running
  /\ bulk.timers > 0
  /\ bulk' = Exit(bulk, 1)
  /\ last' = [op |-> "timer"]
  /\ UNCHANGED <<rows, nextId, now, client, deleted, prev>>

NextShutdown ==
  \/ \E sig \in {"SIGTERM", "SIGINT"} : Signal(sig)
  \/ Server_request
  \/ Server_response
  \/ Server_close
  \/ Timer_fire

\* the server process and the signals it receives
SpecShutdown == InitShutdown /\ [][NextShutdown]_vars

\* the event loop runs a timer that is due and emits a close that is due
FairShutdown == WF_vars(Timer_fire) /\ WF_vars(Server_close)

SpecShutdownFair == SpecShutdown /\ FairShutdown

---------------------------------------------------------------------------
(* Properties of the service *)

\* a request of a batch sets at least one field of a record of the table
AppliedTo(tbl, u) == u.id \in DOMAIN tbl /\ Supplied(u.data) # {}

BulkUpdateFailed == last.op = "bulkUpdate" /\ last.outcome = "error"
BulkUpdateReturned == last.op = "bulkUpdate" /\ last.outcome = "ok"

\* C1: when a per-item update of a bulkUpdate batch fails, the call fails and
\* every record has the value it had before the call.
C1_BulkUpdateAtomic == BulkUpdateFailed => rows = prev

\* C2: bulkUpdate returns matchedCount = the number of requests of the batch
\* and modifiedCount = the number of requests that found and changed an
\* existing record; {0, 0} for the empty batch.
C2_BulkUpdateCounts ==
  BulkUpdateReturned =>
    /\ last.result.matchedCount = Len(last.updates)
    /\ last.result.modifiedCount =
         Cardinality({i \in 1 .. Len(last.updates) : AppliedTo(prev, last.updates[i])})

UpdatedExisting == last.op = "update" /\ last.id \in DOMAIN prev

\* C6: update(id, partial) on an existing record sets exactly the supplied
\* fields, leaves every other field and every other record alone, sets
\* updatedAt to the store's clock if and only if a field is supplied, and
\* with no field supplied returns the current record unchanged.
C6_UpdateMerges ==
  UpdatedExisting =>
    LET id == last.id
        S == Supplied(last.data)
    IN /\ DOMAIN rows = DOMAIN prev
       /\ \A i \in DOMAIN prev \ {id} : rows[i] = prev[i]
       /\ \A k \in S : rows[id][k] = IF k = "date" THEN DayOfIso(NormalizeDate(last.data[k]))
                                      ELSE last.data[k]
       /\ \A k \in (DOMAIN prev[id]) \ (S \cup {"updated_at"}) : rows[id][k] = prev[id][k]
       /\ S # {} => rows[id].updated_at = now
       /\ S = {} => rows[id].updated_at = prev[id].updated_at
       /\ S = {} => last.result = <<mapRowToDisaster(prev[id])>>
       /\ last.result = <<mapRowToDisaster(rows[id])>>

C6_Witness ==
  /\ UpdatedExisting
  /\ Supplied(last.data) = {"status"}
  /\ prev[last.id].status # "contained"
  /\ prev[last.id].updated_at < now

\* C7: delete(id) returns true exactly when the record existed, removes that
\* record and no other, changes nothing on an absent id, and returns false
\* for an id whose delete has returned true before.
C7_Delete ==
  [][last'.op = "delete" =>
       /\ last'.result = (last'.id \in DOMAIN rows)
       /\ rows' = [i \in (DOMAIN rows) \ {last'.id} |-> rows[i]]
       /\ last'.id \in deleted => ~last'.result]_vars

C7_Witness ==
  /\ last.op = "delete"
  /\ last.id \in deleted
  /\ ~last.result
  /\ DOMAIN rows # {}

\* C8: no two records share an id, a record keeps the id it was created
\* with, and an id whose delete returned true names no record afterwards,
\* whatever is created later.
C8_IdsUnique ==
  /\ \A i \in DOMAIN rows : rows[i].id = i
  /\ \A i, j \in DOMAIN rows : rows[i].id = rows[j].id => i = j
  /\ deleted \cap DOMAIN rows = {}
  /\ (last.op = "getById" /\ last.id \in deleted) => last.result = Null

C8_Witness ==
  /\ last.op = "getById"
  /\ last.id \in deleted
  /\ \E i \in DOMAIN rows : i > last.id

---------------------------------------------------------------------------
(* Properties of the bulk routes *)

\* an identifier of the shape the routes accept: a positive integer
ShapeValidId(item) == Has(item, "id") /\ item["id"].t = "number" /\ item["id"].n > 0

\* an item of a bulk update that carries a shape-valid identifier and at
\* least one other field, every field valid under the rules of create
ValidUpdateItem(item) ==
  /\ ShapeValidId(item)
  /\ DOMAIN item \subseteq {"id"} \cup InputKeys
  /\ DOMAIN item # {"id"}
  /\ Has(item, "type") => JoiString(item["type"])
  /\ Has(item, "location") => JoiLocation(item["location"])
  /\ Has(item, "date") => JoiIsoDate(item["date"])
  /\ Has(item, "description") => JoiStringAllowEmpty(item["description"])
  /\ Has(item, "status") => JoiStatus(item["status"])

ValidUpdateBody(body) ==
  /\ body.isArray
  /\ Len(body.items) >= 1
  /\ \A i \in 1 .. Len(body.items) : ValidUpdateItem(body.items[i])

\* C3: PUT /disasters/bulk accepts a non-empty array whose items each carry a
\* shape-valid id and a valid other field, and a single item whose id matches
\* no record is answered {matchedCount: 1, modifiedCount: 0}.
C3_BulkPutAccepts ==
  (last.op = "PUT /bulk" /\ ValidUpdateBody(last.body)) =>
    /\ last.status # 400
    /\ (last.status = 200 /\ Len(last.body.items) = 1
        /\ last.body.items[1]["id"].n \notin DOMAIN prev)
         => last.result = [matchedCount |-> 1, modifiedCount |-> 0]

C4_BulkLimit ==
  /\ (last.op \in {"POST /bulk", "PUT /bulk"} /\ last.body.isArray
      /\ Len(last.body.items) > MaxBulkItems)
       => (last.status = 400 /\ rows = prev)
  /\ (last.op = "POST /bulk" /\ last.body.isArray
      /\ Len(last.body.items) \in 1 .. MaxBulkItems
      /\ \A i \in 1 .. Len(last.body.items) : disasterSchema(last.body.items[i]))
       => last.error # "Invalid input"
  /\ (last.op = "PUT /bulk" /\ ValidUpdateBody(last.body)
      /\ Len(last.body.items) \in 1 .. MaxBulkItems)
       => last.status # 400

---------------------------------------------------------------------------
(* Properties of listing and counting *)

Listed == last.op \in {"list", "GET /", "Query.disasters"}

\* the skip and the limit a list call is to use
EffectiveSkip(x) == IF x.k = "num" /\ x.v >= 0 THEN x.v ELSE 0
EffectiveLimit(x) ==
  IF x.k = "num" /\ x.v > 0 THEN (IF x.v < MaxLimit THEN x.v ELSE MaxLimit) ELSE DefaultLimit

MatchCount(tbl, filter) == Cardinality({i \in DOMAIN tbl : Matches(tbl[i], filter)})

\* C9: list returns at most 100 records through the service, GET /disasters
\* and the GraphQL disasters query; the service treats a negative or
\* non-finite skip as 0 and a non-positive or non-finite limit as 20.
C9_ListCapped ==
  /\ Listed => Len(last.data) <= MaxLimit
  /\ last.op = "list" =>
       LET rest == MatchCount(prev, last.filter) - EffectiveSkip(last.skip)
           limit == EffectiveLimit(last.limit)
       IN Len(last.data) = IF rest < 0 THEN 0 ELSE IF rest < limit THEN rest ELSE limit

\* C10: count with a filter returns the number of records matching the
\* filter, and the total of the GraphQL disasters page is the number of
\* records matching the filter of the query.
C10_CountFiltered ==
  /\ last.op = "count" => last.result = MatchCount(prev, last.filter)
  /\ last.op = "Query.disasters" =>
       last.total = MatchCount(prev, RequestFilter(last.filter))

\* a record as list returns it is one the filter asks for
Wanted(d, filter) ==
  /\ filter.type # Undefined => d.type = filter.type
  /\ filter.status # Undefined => d.status = filter.status
  /\ filter.dateFrom # Undefined =>
       DayOfIso(NormalizeDate(filter.dateFrom)) <= DayOfIso(d.date)
  /\ filter.dateTo # Undefined =>
       DayOfIso(d.date) <= DayOfIso(NormalizeDate(filter.dateTo))

WantedIds(tbl, filter) == {i \in DOMAIN tbl : Wanted(mapRowToDisaster(tbl[i]), filter)}

\* C11: every record list returns is a stored record that has the type and
\* the status of the filter and a date within dateFrom .. dateTo, bounds
\* included; a call that skips nothing and whose limit is no less than the
\* number of such records returns all of them.
C11_ListFilters ==
  last.op = "list" =>
    /\ \A p \in 1 .. Len(last.data) :
         /\ last.data[p].id \in WantedIds(prev, last.filter)
         /\ last.data[p] = mapRowToDisaster(prev[last.data[p].id])
    /\ (EffectiveSkip(last.skip) = 0
        /\ Cardinality(WantedIds(prev, last.filter)) <= EffectiveLimit(last.limit))
         => {last.data[p].id : p \in 1 .. Len(last.data)} = WantedIds(prev, last.filter)

\* a list whose date bound is the date of a record it returns, on a table
\* that has a record outside the bounds
C11_Witness ==
  /\ last.op = "list"
  /\ \E p \in 1 .. Len(last.data) :
       \/ /\ last.filter.dateFrom # Undefined
          /\ DayOfIso(last.data[p].date) = DayOfIso(NormalizeDate(last.filter.dateFrom))
       \/ /\ last.filter.dateTo # Undefined
          /\ DayOfIso(last.data[p].date) = DayOfIso(NormalizeDate(last.filter.dateTo))
  /\ WantedIds(prev, last.filter) # DOMAIN prev

\* the ways to put the records S of a table in descending createdAt order
NewestFirst(tbl, S) ==
  {ord \in [1 .. Cardinality(S) -> S] :
     /\ \A p, q \in DOMAIN ord : p # q => ord[p] # ord[q]
     /\ \A p, q \in DOMAIN ord : p < q => tbl[ord[p]].created_at >= tbl[ord[q]].created_at}

\* the positions s .. s+l-1 of a sequence, counted from 0
Positions(seq, s, l) ==
  [p \in 1 .. (IF Len(seq) <= s THEN 0 ELSE IF Len(seq) - s < l THEN Len(seq) - s ELSE l) |->
     seq[s + p]]

IdsOf(data) == [p \in 1 .. Len(data) |-> data[p].id]

\* C12: list with skip s >= 0 and limit l > 0 returns the records at the
\* positions s .. s+l-1 of the matching records in descending createdAt
\* order, and GET /disasters with page p >= 1 and limit l in 1 .. 100 those
\* at the positions (p-1)*l .. p*l-1.
C12_ListOrder ==
  /\ (last.op = "list" /\ last.skip.k = "num" /\ last.skip.v >= 0
      /\ last.limit.k = "num" /\ last.limit.v > 0)
       => \E ord \in NewestFirst(prev, WantedIds(prev, last.filter)) :
            IdsOf(last.data) = Positions(ord, last.skip.v, last.limit.v)
  /\ (last.op = "GET /" /\ last.page.k = "num" /\ last.page.v >= 1
      /\ last.limit.k = "num" /\ last.limit.v \in 1 .. MaxLimit)
       => \E ord \in NewestFirst(prev, WantedIds(prev, last.filter)) :
            IdsOf(last.data) = Positions(ord, (last.page.v - 1) * last.limit.v, last.limit.v)

\* the second of two records created at different instants was listed
C12_Witness ==
  /\ last.op = "list"
  /\ last.skip = Num(1)
  /\ last.limit = Num(1)
  /\ Len(last.data) = 1
  /\ \E i \in WantedIds(prev, last.filter) : prev[i].created_at > last.data[1].createdAt

---------------------------------------------------------------------------
(* Properties of the routes of one record *)

ById == last.op \in {"GET /:id", "PUT /:id", "DELETE /:id"}

\* the id is a string of digits that names a positive number
WellFormed(id) == id.digits /\ (id.wide \/ id.n > 0)

Names(id, tbl) == ~id.wide /\ id.n \in DOMAIN tbl

\* a body of an update: at least one of the five fields, each field that is
\* present valid under the rules of create
ValidPartial(body) ==
  /\ DOMAIN body \subseteq InputKeys
  /\ DOMAIN body # {}
  /\ Has(body, "type") => JoiString(body["type"])
  /\ Has(body, "location") => JoiLocation(body["location"])
  /\ Has(body, "date") => JoiIsoDate(body["date"])
  /\ Has(body, "description") => JoiStringAllowEmpty(body["description"])
  /\ Has(body, "status") => JoiStatus(body["status"])

\* C13: GET, PUT and DELETE /disasters/:id answer 400 to an id that fails
\* the format check, without access to the store, whatever the body; and
\* 404 to a well-formed id that names no record (for PUT, with a valid body
\* of an update), leaving the table as it was.
C13_IdErrors ==
  ById =>
    /\ ~WellFormed(last.id) => (last.status = 400 /\ ~last.store /\ rows = prev)
    /\ (WellFormed(last.id) /\ ~Names(last.id, prev)
        /\ (last.op = "PUT /:id" => ValidPartial(last.body)))
         => (last.status = 404 /\ rows = prev)

\* a point whose longitude or latitude is no number or is out of bounds
OutOfBounds(loc) ==
  /\ Len(loc.c) = 2
  /\ \/ loc.c[1].t # "number" \/ loc.c[1].n < -MaxLongitude \/ loc.c[1].n > MaxLongitude
     \/ loc.c[2].t # "number" \/ loc.c[2].n < -MaxLatitude \/ loc.c[2].n > MaxLatitude

LocationMessages ==
  { "location (object) is required", "\"location.type\" must be [Point]",
    "\"location.coordinates\" must contain 2 items",
    "\"location.coordinates\" does not match any of the allowed types" }

StoredInBounds ==
  \A i \in DOMAIN rows :
    /\ Len(rows[i].location) = 2
    /\ rows[i].location[1] \in -MaxLongitude .. MaxLongitude
    /\ rows[i].location[2] \in -MaxLatitude .. MaxLatitude

\* C14: a create or an update whose point has a longitude outside -180 .. 180,
\* a latitude outside -90 .. 90 or a coordinate that is no finite number is
\* answered 400 with an error about the location and changes no record;
\* every stored location is a pair within those bounds.
C14_Coordinates ==
  /\ (/\ last.op \in {"POST /", "PUT /:id"}
      /\ last.op = "PUT /:id" => WellFormed(last.id)
      /\ Has(last.body, "location")
      /\ OutOfBounds(last.body["location"]))
       => /\ last.status = 400
          /\ \E p \in 1 .. Len(last.details) : last.details[p] \in LocationMessages
          /\ rows = prev
  /\ StoredInBounds

\* the body with status set to st
WithStatus(body, st) ==
  [k \in DOMAIN body \cup {"status"} |-> IF k = "status" THEN JStr(st) ELSE body[k]]

\* C15: POST /disasters with a body that has no status and is valid
\* otherwise is answered 201, and the record it creates has status active.
C15_StatusDefault ==
  (last.op = "POST /" /\ ~Has(last.body, "status")
   /\ disasterSchema(WithStatus(last.body, "active")))
    => /\ last.status = 201
       /\ Cardinality(DOMAIN rows) = Cardinality(DOMAIN prev) + 1
       /\ \A i \in DOMAIN rows \ DOMAIN prev : rows[i].status = "active"

RequiredFields == {"type", "location", "date", "status"}

\* the message that tells a client that a required field is missing
MissingMessage(field) ==
  CASE field = "type" -> "type (string) is required"
    [] field = "location" -> "location (object) is required"
    [] field = "date" -> "date (ISO string) is required"
    [] field = "status" -> "\"status\" is required"

\* C16: POST /disasters with type, location, date and status all missing is
\* answered 400 with one message for each of the four fields, the four
\* messages distinct, and creates nothing.
C16_MissingFields ==
  (last.op = "POST /" /\ DOMAIN last.body \cap RequiredFields = {}) =>
    /\ last.status = 400
    /\ rows = prev
    /\ \A f \in RequiredFields : \E p \in 1 .. Len(last.details) : last.details[p] = MissingMessage(f)
    /\ Cardinality({MissingMessage(f) : f \in RequiredFields}) = 4
    /\ Cardinality({p \in 1 .. Len(last.details) :
                      \E f \in RequiredFields : last.details[p] = MissingMessage(f)}) = 4

\* the body {} was posted to a table that holds a record
C16_Witness ==
  /\ last.op = "POST /"
  /\ DOMAIN last.body = {}
  /\ last.status = 400
  /\ Len(last.details) = 4
  /\ DOMAIN prev # {}

\* an update was answered as invalid input
RejectedInput ==
  \/ last.op = "PUT /:id" /\ last.status = 400
  \/ last.op = "Mutation.updateDisaster"
     /\ last.code \in {"BAD_USER_INPUT", "GRAPHQL_VALIDATION_FAILED"}

\* C17: PUT /disasters/:id and the GraphQL updateDisaster, called with a
\* well-formed id, accept every body that has at least one of the five
\* fields and whose present fields are valid under the rules of create, and
\* reject a body that has none of the five fields.
C17_PartialUpdate ==
  (last.op \in {"PUT /:id", "Mutation.updateDisaster"} /\ WellFormed(last.id)) =>
    /\ ValidPartial(last.body) => ~RejectedInput
    /\ DOMAIN last.body \cap InputKeys = {} => RejectedInput

---------------------------------------------------------------------------
(* Properties of the proximity query *)

\* a parameter that is missing, is no number or is out of lo .. hi
BadParam(q, lo, hi) == q.k # "number" \/ q.n < lo \/ q.n > hi

BadNearQuery(query) ==
  \/ BadParam(query.lat, -MaxLatitude, MaxLatitude)
  \/ BadParam(query.lng, -MaxLongitude, MaxLongitude)
  \/ BadParam(query.distance, 0, query.distance.n)

\* C18: GET /disasters/near answers 400 and runs no proximity query when
\* lat, lng or distance is missing, is no number (the empty string, NaN and
\* Infinity included) or is out of range.
C18_NearRejects ==
  (last.op = "GET /near" /\ BadNearQuery(last.query)) =>
    (last.status = 400 /\ ~last.store /\ last.data = <<>>)

\* lng was the empty string, lat and distance were valid, and a record on the
\* longitude 0 the empty string would default to was stored in reach
C18_Witness ==
  /\ last.op = "GET /near"
  /\ last.query.lng = QEmpty
  /\ last.query.lat = QNum(0)
  /\ last.query.distance = QNum(112)
  /\ last.status = 400
  /\ DOMAIN prev # {}

NearIds == {last.data[p].id : p \in 1 .. Len(last.data)}

-----------------------------------------------------------------------------
(* Properties of content negotiation *)

RestOps ==
  {"GET /", "GET /near", "GET /:id", "POST /", "PUT /:id", "DELETE /:id", "POST /bulk", "PUT /bulk"}

\* the last operation was a REST request and its response has been sent
Responded == last.op \in RestOps /\ last.status # 0

\* the first comma-separated entry of the header, white space trimmed, is
\* exactly the protobuf media type
PrimaryIsProtobuf(accept) ==
  /\ Len(accept) > 0
  /\ Trim(FirstEntry(accept)) = <<ProtobufType>>

\* C20, as stated: a REST response is protobuf if and only if the first
\* entry of the Accept header, trimmed, is exactly application/x-protobuf,
\* and it is JSON with any other first entry or with no header
C20_AlwaysNegotiated ==
  Responded =>
    /\ last.format = "protobuf" <=> PrimaryIsProtobuf(last.accept)
    /\ ~PrimaryIsProtobuf(last.accept) => last.format = "json"

\* C20, amended: a successful response (200 or 201) is protobuf if and only
\* if the first entry of the Accept header, trimmed, is exactly
\* application/x-protobuf, and JSON otherwise; an error response is JSON
\* under every header; a successful deletion under any other header is a
\* 204 without a body; so no response is protobuf under another first entry
C20_ContentNegotiation ==
  Responded =>
    /\ last.status \in {200, 201} =>
         last.format = (IF PrimaryIsProtobuf(last.accept) THEN "protobuf" ELSE "json")
    /\ last.status >= 400 => last.format = "json"
    /\ last.status \notin {200, 201} /\ last.status < 400 =>
         /\ last.op = "DELETE /:id" /\ last.status = 204 /\ last.format = "none"
         /\ ~PrimaryIsProtobuf(last.accept)
    /\ last.format = "protobuf" => PrimaryIsProtobuf(last.accept)

\* records were sent in protobuf to a header whose first entry has white
\* space around the media type and another type after it
C20_Witness ==
  /\ Responded
  /\ last.accept = <<" ", ProtobufType, " ", ",", "application/json">>
  /\ last.status \in {200, 201}
  /\ last.format = "protobuf"
  /\ Len(last.data) > 0

-----------------------------------------------------------------------------
(* Properties of the representations *)

\* the last operation sent records: as JSON, as protobuf or as GraphQL values
Rendered ==
  \/ last.op \in {"GET /", "GET /:id"} /\ last.status = 200
  \/ last.op = "Query.disasters"

IsMessage == last.op \in {"GET /", "GET /:id"} /\ last.format = "protobuf"

\* the value a representation carries for a field of the record
Carried(item, k) ==
  IF k = "location" /\ IsMessage THEN item.location.json ELSE item[k]

EntityFields == {"type", "location", "date", "description", "status"}

\* C21: every representation of a record that is sent (the REST JSON DTO,
\* the GraphQL value, the protobuf message) carries for each field the value
\* the JSON DTO of the stored record carries, so status is 'active' in all
\* three when the record's status is absent
C21_SameFields ==
  Rendered =>
    \A p \in 1 .. Len(last.data) :
      LET item == last.data[p]
          dto == DisasterResponseDTO(getDisasterById(rows, item.id)[1])
      IN \A k \in EntityFields : Carried(item, k) = dto[k]

\* C21, the status alone: every representation of a record whose status is
\* absent carries 'active'
C21_StatusDefault ==
  Rendered =>
    \A p \in 1 .. Len(last.data) :
      rows[last.data[p].id].status = SqlNull => last.data[p].status = "active"

-----------------------------------------------------------------------------
(* Properties of the GraphQL resolvers *)

GqlById == {"Query.disaster", "Mutation.updateDisaster", "Mutation.deleteDisaster"}

GqlOps ==
  GqlById \cup {"Mutation.createDisaster", "Mutation.bulkInsertDisasters",
                "Mutation.bulkUpdateDisasters"}

\* the last operation was a GraphQL request and it has been answered
GqlAnswered == last.op \in GqlOps /\ last.code # "running"

UserInputCodes == {"BAD_USER_INPUT", "GRAPHQL_VALIDATION_FAILED"}

GenericMessages ==
  { "Failed to fetch disaster", "Failed to create disaster", "Failed to update disaster",
    "Failed to delete disaster", "Failed to bulk insert disasters",
    "Failed to bulk update disasters" }

\* an element of a bulk update: the id of a record as a string of digits,
\* and a valid body of an update
ValidGqlUpdate(update) ==
  /\ Has(update, "_id")
  /\ update["_id"].t = "string" /\ update["_id"].s \in {"1", "2", "3"}
  /\ ValidPartial([k \in DOMAIN update \ {"_id"} |-> update[k]])

\* the input of the answered request is valid under the rules of the API
ValidGqlInput ==
  CASE last.op \in {"Query.disaster", "Mutation.deleteDisaster"} -> WellFormed(last.id)
    [] last.op = "Mutation.updateDisaster" -> WellFormed(last.id) /\ ValidPartial(last.body)
    [] last.op = "Mutation.createDisaster" -> disasterSchema(last.body)
    [] last.op = "Mutation.bulkInsertDisasters" -> bulkInsertSchema(last.body)
    [] last.op = "Mutation.bulkUpdateDisasters" ->
         /\ Len(last.body.items) >= 1
         /\ \A i \in 1 .. Len(last.body.items) : ValidGqlUpdate(last.body.items[i])

\* C22: a GraphQL resolver answers with a user-input error exactly when its
\* input is invalid, with NOT_FOUND when a well-formed id names no record,
\* and with INTERNAL_ERROR and a generic message only when the service
\* failed on a valid input
C22_Classified ==
  GqlAnswered =>
    /\ last.code \in UserInputCodes <=> ~ValidGqlInput
    /\ (last.op \in GqlById /\ ValidGqlInput /\ InRange(last.id) /\ ~Names(last.id, prev))
         => last.code = "NOT_FOUND"
    /\ last.code = "NOT_FOUND" => (last.op \in GqlById /\ ~Names(last.id, prev))
    /\ last.code = "INTERNAL_ERROR" =>
         (ValidGqlInput /\ last.store /\ last.message \in GenericMessages)

-----------------------------------------------------------------------------
(* Properties of the service under malformed ids *)

\* the last operation was getById, update or delete of the service with an
\* id that is empty or no number
MalformedCall ==
  /\ last.op \in {"getDisasterById", "updateDisaster", "deleteDisaster"}
  /\ ~last.id.digits

\* C23: getById, update and delete of the service, called with a malformed
\* id, return null, null and false and never raise, and leave the table as
\* it was
C23_MalformedIdAbsent ==
  MalformedCall =>
    /\ last.outcome = "returned"
    /\ last.result = (IF last.op = "deleteDisaster" THEN <<FALSE>> ELSE Null)
    /\ rows = prev

-----------------------------------------------------------------------------
(* Properties of the stored status *)

\* C24: after any sequence of create, bulk insert, update and bulk update
\* requests through REST or GraphQL, the status of every stored record is one
\* of active, contained, resolved, and never null
C24_StatusEnum == \A i \in DOMAIN rows : rows[i].status \in Statuses

\* a record was updated through PUT /:id after requests with a status that
\* is none of the three, and the table holds two records
C24_Witness ==
  /\ last.op = "PUT /:id"
  /\ last.status = 200
  /\ Cardinality(DOMAIN rows) = 2
  /\ \E i \in DOMAIN rows : rows[i].status = "resolved"
  /\ rows # prev

-----------------------------------------------------------------------------
(* Properties of reads during a bulk update *)

RECURSIVE ApplyAll(_, _, _)
\* the table after every update of the batch, applied in order at clock t
ApplyAll(tbl, updates, t) ==
  IF Len(updates) = 0 THEN tbl
  ELSE ApplyAll(UpdateTable(tbl, updates[1].id, updates[1].data, t), Tail(updates), t)

\* C25: a getById or a list that runs while a bulkUpdate batch is in progress
\* sees every record either as it was before the batch or as it is after
\* the whole batch, never a table with some of the batch's updates applied
\* and others not
C25_BatchInvisible ==
  /\ last.op = "list during bulkUpdate" =>
       \/ last.data = getAllDisasters(prev, Undef, Undef, NoFilter, last.tieAsc)
       \/ last.data = getAllDisasters(ApplyAll(prev, last.batch, now), Undef, Undef, NoFilter,
                                      last.tieAsc)
  /\ last.op = "getById during bulkUpdate" =>
       \/ last.result = getDisasterById(prev, last.id)
       \/ last.result = getDisasterById(ApplyAll(prev, last.batch, now), last.id)

-----------------------------------------------------------------------------
(* Properties of the pool *)

\* a call holds its client and has an item left whose statement has not got
\* a connection
WaitsForQuery(c) ==
  /\ bulk.calls[c].pc = "loop"
  /\ bulk.calls[c].i <= Len(bulk.calls[c].updates)

\* every connection of the pool is the client of a call that waits for a
\* further connection
PoolExhausted ==
  /\ client.inUse = PoolSize
  /\ Cardinality({c \in PoolCalls : WaitsForQuery(c)}) = PoolSize

\* C26: with a pool of PoolSize connections, no state is reachable in which
\* every connection is held by a bulkUpdate in flight that waits for a
\* further connection for its next item
C26_NoPoolDeadlock == ~PoolExhausted

\* C26, as progress: every call of bulkUpdate that was made ends
C26_CallsEnd ==
  \A c \in PoolCalls : (bulk.calls[c].pc = "connect") ~> (bulk.calls[c].pc = "ended")

-----------------------------------------------------------------------------
(* Properties of two updates at the same time *)

\* both calls have returned and they named the same record of the table
BothReturned ==
  /\ \A c \in PairCalls : bulk.calls[c].pc = "returned"
  /\ bulk.calls[1].id = bulk.calls[2].id
  /\ bulk.calls[1].id \in DOMAIN prev

\* the record holds, in every field the call later supplied, that call's
\* value, and in every other field the call first supplied, that one's
LastWriteWins(row, first, later) ==
  \A k \in InputKeys :
    IF k \in Supplied(later.data) THEN row[k] = SetValue(k, later.data[k])
    ELSE k \in Supplied(first.data) => row[k] = SetValue(k, first.data[k])

\* C27: after two updateDisaster calls on the same existing record that were
\* in flight together, the record is what the two updates give in one of the
\* two serial orders, and a field that neither call supplied has the value it
\* had before
C27_ConcurrentUpdates ==
  BothReturned =>
    LET a == bulk.calls[1]
        b == bulk.calls[2]
        row == rows[a.id]
    IN /\ LastWriteWins(row, a, b) \/ LastWriteWins(row, b, a)
       /\ \A k \in InputKeys \ (Supplied(a.data) \cup Supplied(b.data)) :
            row[k] = prev[a.id][k]
       /\ \A i \in DOMAIN prev \ {a.id} : rows[i] = prev[i]
       /\ DOMAIN rows = DOMAIN prev

\* both calls returned after they set the status of record 1 to different
\* values, with the description supplied by one call alone
C27_Witness ==
  /\ BothReturned
  /\ bulk.calls[1].id = 1
  /\ bulk.calls[1].data.status = "contained"
  /\ bulk.calls[2].data.status = "resolved"
  /\ rows[1].status = "contained"
  /\ rows[1].description = "e"
  /\ rows[1].type = "fire"

-----------------------------------------------------------------------------
(* Properties of the error middleware *)

\* how many of the handler's calls went to fn
Calls(fn) == Len(SelectSeq(last.calls, LAMBDA c : c.fn = fn))

Handled == last.op = "errorHandler"

\* C28: errorHandler with a response whose headers are sent sets no status,
\* writes no body and calls next once, with the error; with a response whose
\* headers are not sent it sets one status, writes one body and does not call
\* next
C28_ErrorHandler ==
  Handled =>
    /\ last.res.headersSent = "true" =>
         /\ Calls("res.status") = 0
         /\ Calls("res.json") = 0
         /\ Calls("next") = 1
         /\ last.calls[1].err = <<Defended(last.err)>>
    /\ last.res.headersSent = "false" =>
         /\ Calls("res.status") = 1
         /\ Calls("res.json") = 1
         /\ Calls("next") = 0

\* the handler passed on an error of status 400 because the headers of the
\* response were sent
C28_Witness ==
  /\ Handled
  /\ last.res.headersSent = "true"
  /\ last.err.status = JNum(400)
  /\ last.calls = <<NextCall(last.err)>>

\* the handler answered 503 on a response whose headers were not sent
C28_WitnessWritten ==
  /\ Handled
  /\ last.res.headersSent = "false"
  /\ Calls("res.json") = 1
  /\ last.calls[1] = StatusCall(503)

-----------------------------------------------------------------------------
(* Properties of the pages of the GraphQL list *)

PageAnswered == last.op = "Query.disasters"

\* C29: the DisasterPage of Query.disasters, for any Int page and limit, has a
\* limit that bounds the number of records in data, and a totalPages that is
\* a finite non-negative integer, the least number of pages of that limit
\* that hold total records
C29_PageLimit ==
  PageAnswered =>
    /\ Len(last.data) <= last.limit.v
    /\ last.totalPages.k = "num"
    /\ last.totalPages.v >= 0
    /\ last.totalPages.v * last.limit.v >= last.total
    /\ (last.totalPages.v - 1) * last.limit.v < last.total \/ last.total = 0

\* the same for a limit that is absent or positive
C29_PositiveLimit ==
  (PageAnswered /\ last.limit.v > 0) =>
    /\ Len(last.data) <= last.limit.v
    /\ last.totalPages.k = "num"
    /\ last.totalPages.v >= 0
    /\ last.totalPages.v * last.limit.v >= last.total
    /\ (last.totalPages.v - 1) * last.limit.v < last.total \/ last.total = 0

-----------------------------------------------------------------------------
(* Properties of the shutdown *)

Exited(code) == bulk.pc = "process" /\ bulk.exited /\ bulk.code = code

\* C30: the process never exits with code 0 while the HTTP server is open:
\* an exit with code 0 comes after the server has closed, its requests in
\* flight answered
C30_ExitZeroAfterClose ==
  Exited(0) => (bulk.server = "closed" /\ bulk.open = 0)

\* an exit with code 1 comes from the force-exit timer of a shutdown
C30_ExitOneByTimer ==
  Exited(1) => (bulk.timers > 0 /\ bulk.server = "closing" /\ last.op = "timer")

\* after a signal the process eventually exits
C30_EventuallyExits ==
  (bulk.pc = "process" /\ bulk.signals > 0) ~> bulk.exited

\* the process exited with code 0 after the server closed
C30_WitnessClosed == Exited(0) /\ bulk.server = "closed" /\ bulk.signals > 0

====
